---------------------------- MODULE Spec2Model ----------------------------
(***************************************************************************)
(* kvalog: a Logger facade over spdlog (kvalog/kvalog.hpp).                *)
(*                                                                         *)
(* The module models Logger objects (configuration, context, level, sink   *)
(* set), the spdlog registry's global thread pool that every Async Logger  *)
(* installs through spdlog::init_thread_pool, the pool's bounded blocking  *)
(* queue and worker threads, and the client threads that call the Logger's *)
(* public operations.                                                      *)
(***************************************************************************)
EXTENDS Naturals, Sequences, FiniteSets, TLC

(***************************************************************************)
(* Bounds of the model.                                                    *)
(***************************************************************************)
MaxLoggers == 2
NClients == 2
MaxOps == 3
MaxLiveOps == 2
MaxQueueSize == 2
MaxThreadCount == 2

LoggerIds == 1..MaxLoggers
Clients == 1..NClients
\* An empty / expired pointer to a thread pool.
NoPool == 0

(***************************************************************************)
(* enum class LogLevel and spdlog::level::level_enum.                      *)
(***************************************************************************)
LogLevel == <<"Off", "Trace", "Debug", "Info", "Warning", "Error", "Critical">>
LogLevels == {LogLevel[i] : i \in 1..Len(LogLevel)}

\* spdlog::level: trace=0, debug=1, info=2, warn=3, err=4, critical=5, off=6
toSpdlogLevel(level) ==
    CASE level = "Off" -> 6
      [] level = "Trace" -> 0
      [] level = "Debug" -> 1
      [] level = "Info" -> 2
      [] level = "Warning" -> 3
      [] level = "Error" -> 4
      [] level = "Critical" -> 5
      [] OTHER -> 2

levelToString(level) ==
    CASE level = "Trace" -> "TRC"
      [] level = "Debug" -> "DBG"
      [] level = "Info" -> "INF"
      [] level = "Warning" -> "WRN"
      [] level = "Error" -> "ERR"
      [] level = "Critical" -> "CRT"
      [] OTHER -> "INF"

\* spdlog::logger::should_log: msg_level >= level_
should_log(loggerLevel, msgLevel) == msgLevel >= loggerLevel

(***************************************************************************)
(* struct LogFieldConfig, Logger::Context and the two formatters.          *)
(***************************************************************************)
FieldNames == {"includeAppName", "includeProcessId", "includeThreadId",
               "includeModuleName", "includeLogLevel", "includeFile",
               "includeMessage", "includeTime"}

LogFieldConfig == [f \in FieldNames |-> TRUE]

OutputFormat == {"Json", "Terminal"}

\* The external primitives, as the fixed text they yield in the model.
getCurrentTimeString == "<time>"
getProcessId == "<pid>"
getThreadId(thread) == "<tid" \o ToString(thread) \o ">"
\* file_name() is a path; find_last_of("/\\") + substr keeps its last component.
formatFileLine(location) ==
    location.file[Len(location.file)] \o ":" \o ToString(location.line)

\* nlohmann::json object: keys kept sorted; dump() writes them in that order,
\* compact, as {"k":"v","k":"v"}. A json value that was never assigned a key
\* is null, not an object, and dump() writes it as null.
JsonKeyOrder == <<"app", "file", "level", "message", "module", "process_id",
                  "thread_id", "time">>

Quoted(text) == "\"" \o text \o "\""

dump(entry) ==
    LET F[i \in 0..Len(JsonKeyOrder)] ==
            IF i = 0 THEN ""
            ELSE IF JsonKeyOrder[i] \in DOMAIN entry
                 THEN F[i - 1] \o (IF F[i - 1] = "" THEN "" ELSE ",")
                      \o Quoted(JsonKeyOrder[i]) \o ":"
                      \o Quoted(entry[JsonKeyOrder[i]])
                 ELSE F[i - 1]
    IN  IF DOMAIN entry = {} THEN "null"
        ELSE "{" \o F[Len(JsonKeyOrder)] \o "}"

\* (Variant: the key is set whatever the flag and the emptiness test say.)
JsonSetAlways(entry, cond, key, value) ==
    [k \in DOMAIN entry \cup {key} |-> IF k = key THEN value ELSE entry[k]]

\* log_entry[key] = value, when cond holds
JsonSet(entry, cond, key, value) ==
    IF cond THEN [k \in DOMAIN entry \cup {key} |->
                     IF k = key THEN value ELSE entry[k]]
    ELSE entry

\* The nlohmann::json object formatJson builds, before dump().
log_entry(fields, context, thread, level, message, location) ==
    LET e0 == [k \in {} |-> ""]
        e1 == JsonSet(e0, fields.includeTime, "time", getCurrentTimeString)
        e2 == JsonSet(e1, fields.includeAppName /\ context.appName # "",
                      "app", context.appName)
        e3 == JsonSet(e2, fields.includeProcessId, "process_id", getProcessId)
        e4 == JsonSet(e3, fields.includeThreadId, "thread_id", getThreadId(thread))
        e5 == JsonSet(e4, fields.includeModuleName /\ context.moduleName # "",
                      "module", context.moduleName)
        e6 == JsonSet(e5, fields.includeLogLevel, "level", levelToString(level))
        e7 == JsonSet(e6, fields.includeFile, "file", formatFileLine(location))
        e8 == JsonSet(e7, fields.includeMessage, "message", message)
    IN  e8

formatJson(fields, context, thread, level, message, location) ==
    dump(log_entry(fields, context, thread, level, message, location))

section(content) == "[" \o content \o "]"

\* (Variant: the separating space is written whatever includeMessage says.)
formatTerminalSpaceAlways(fields, context, thread, level, message, location) ==
    (IF fields.includeTime THEN section(getCurrentTimeString) ELSE "")
    \o (IF fields.includeAppName /\ context.appName # ""
        THEN section(context.appName) ELSE "")
    \o (IF fields.includeModuleName /\ context.moduleName # ""
        THEN section(context.moduleName) ELSE "")
    \o (IF fields.includeProcessId THEN section("PID:" \o getProcessId) ELSE "")
    \o (IF fields.includeThreadId
        THEN section("TID:" \o getThreadId(thread)) ELSE "")
    \o (IF fields.includeLogLevel THEN section(levelToString(level)) ELSE "")
    \o (IF fields.includeFile THEN section(formatFileLine(location)) ELSE "")
    \o " " \o (IF fields.includeMessage THEN message ELSE "")

formatTerminal(fields, context, thread, level, message, location) ==
    LET s1 == IF fields.includeTime THEN section(getCurrentTimeString) ELSE ""
        s2 == IF fields.includeAppName /\ context.appName # ""
              THEN s1 \o section(context.appName) ELSE s1
        s3 == IF fields.includeModuleName /\ context.moduleName # ""
              THEN s2 \o section(context.moduleName) ELSE s2
        s4 == IF fields.includeProcessId
              THEN s3 \o section("PID:" \o getProcessId) ELSE s3
        s5 == IF fields.includeThreadId
              THEN s4 \o section("TID:" \o getThreadId(thread)) ELSE s4
        s6 == IF fields.includeLogLevel
              THEN s5 \o section(levelToString(level)) ELSE s5
        s7 == IF fields.includeFile
              THEN s6 \o section(formatFileLine(location)) ELSE s6
        s8 == IF fields.includeMessage THEN s7 \o " " \o message ELSE s7
    IN  s8

\* A std::string that is not valid UTF-8 (it holds the byte 0xFF).
BadBytes == "<0xFF>"
ValidUtf8(text) == text # BadBytes

\* nlohmann::json::dump() with the default error handler (strict) throws
\* type_error.316 when a string of the object is not valid UTF-8.
DumpThrows(entry) == \E k \in DOMAIN entry : ~ValidUtf8(entry[k])

\* Logger::log, lines 287-293: the formatting step leaves by an exception.
\* formatTerminal copies the bytes of the message and cannot fail.
FormatThrows(format, fields, context, thread, level, message, location) ==
    /\ format = "Json"
    /\ DumpThrows(log_entry(fields, context, thread, level, message, location))

\* Logger::log, lines 289-293: the formatter the configured format selects.
Render(format, fields, context, thread, level, message, location) ==
    IF format = "Json"
    THEN formatJson(fields, context, thread, level, message, location)
    ELSE formatTerminal(fields, context, thread, level, message, location)

(***************************************************************************)
(* Inputs of the model.                                                    *)
(***************************************************************************)
MinimalFields == [LogFieldConfig EXCEPT !["includeProcessId"] = FALSE,
                                        !["includeThreadId"] = FALSE,
                                        !["includeFile"] = FALSE,
                                        !["includeMessage"] = FALSE]
FieldChoices == {LogFieldConfig, MinimalFields}

Contexts == {[appName |-> "App", moduleName |-> "Mod"],
             [appName |-> "", moduleName |-> "Sub"]}
DefaultContext == [appName |-> "", moduleName |-> ""]

Location == [file |-> <<"src", "a.cpp">>, line |-> 10]

LogInputLevels == {"Debug", "Error"}
SetLevelInputs == {"Off", "Error"}

\* std::optional<std::string> logFilePath: no path, a path that can be
\* opened for writing, a path that cannot.
NoPath == "nullopt"
GoodPath == "/log/app.log"
BadPath == "/nodir/app.log"

\* basic_file_sink_mt(path, true): opening the file fails (and throws).
OpenAlwaysWorks(path) == FALSE

OpenFails(path) == path = BadPath

\* struct Logger::Config with its default member initialisers, except that
\* the queue size (8192 in the source) is drawn from 1..MaxQueueSize.
DefaultConfig ==
    [format |-> "Terminal", fields |-> LogFieldConfig, asyncMode |-> "Sync",
     logToConsole |-> TRUE, logFilePath |-> NoPath, networkAdapter |-> FALSE,
     asyncQueueSize |-> 1, asyncThreadCount |-> 1]

\* The configuration with every output destination in use.
FullConfig ==
    [DefaultConfig EXCEPT !.logFilePath = GoodPath, !.networkAdapter = TRUE]

\* The configurations the callers construct Loggers from.
Configs ==
    {DefaultConfig, FullConfig, [FullConfig EXCEPT !.logToConsole = FALSE]}
    \cup
    {[FullConfig EXCEPT !.asyncMode = "Async",
                        !.asyncQueueSize = q, !.asyncThreadCount = t] :
        q \in 1..MaxQueueSize, t \in 1..MaxThreadCount}

\* The same configurations with a file path that cannot be opened.
BadFileConfigs == {[config EXCEPT !.logFilePath = BadPath] : config \in Configs}

SinkKinds == {"console", "file", "network"}

\* (Variant: a console sink whatever logToConsole says.)
SinksOfConsoleAlways(config) ==
    <<"console">>
    \o (IF config.logFilePath # NoPath THEN <<"file">> ELSE << >>)
    \o (IF config.networkAdapter THEN <<"network">> ELSE << >>)

\* Logger::initializeLogger, lines 243-265: the sinks vector, in push order.
SinksOf(config) ==
    (IF config.logToConsole THEN <<"console">> ELSE << >>)
    \o (IF config.logFilePath # NoPath THEN <<"file">> ELSE << >>)
    \o (IF config.networkAdapter THEN <<"network">> ELSE << >>)

(***************************************************************************)
(* State.                                                                  *)
(***************************************************************************)
VARIABLES
    loggers,      \* [LoggerIds -> Logger object]
    registry,     \* spdlog registry: the global thread pool (a pool id, or NoPool)
    pools,        \* [LoggerIds -> thread pool]: pool l is the one Logger l created
    sinks,        \* [LoggerIds -> what each sink of Logger l has accepted]
    sinkFlushes,  \* [LoggerIds -> number of times the sinks of l were flushed]
    clients,      \* [Clients -> where the client thread is]
    adapterUp,    \* NetworkSinkInterface::isConnected() of the adapter
    flushWaits,   \* the spdlog build: async flush waits for its flush message
    calls,        \* history: the log calls made, in call order
    flushRet,     \* history: [Clients -> the last flush() call that returned]
    budget,       \* the calls the clients may still make, by kind
    \* One log call followed through the sinks step by step (SinkSpec):
    skConfig,     \* the Logger's format, delivery mode and sinks vector
    skThreads,    \* [Clients -> where the thread is inside log / setAdapter]
    skLocks,      \* [sink -> the thread that holds the sink's mutex_, or 0]
    skAdapter,    \* NetworkSink::adapter: an adapter, or NoAdapter (nullptr)
    skEnv,        \* the adapters' isConnected(), and what currently throws
    skOut,        \* what each sink wrote, what each adapter was sent
    skCalls,      \* history: the log calls made, in call order
    skOps,        \* the calls the threads may still make
    \* The formatters applied to drawn inputs (FormatSpec):
    fm,
    \* A log call and the setters of the same Logger on two threads (RaceSpec):
    rc,
    \* The log file and the file sinks of the Loggers that name it (FileSpec):
    fs

\* The variables of the pipeline model.
pvars == <<loggers, registry, pools, sinks, sinkFlushes, clients, adapterUp,
           flushWaits, calls, flushRet, budget>>

\* The variables of the sink model.
svars == <<skConfig, skThreads, skLocks, skAdapter, skEnv, skOut, skCalls, skOps>>

vars == <<pvars, svars, fm, rc, fs>>

NoMsg == [type |-> "none", logger |-> 0, id |-> 0, level |-> "Off", payload |-> ""]

IdleClient == [pc |-> "idle", l |-> 0, p |-> NoPool, msg |-> NoMsg, left |-> 0,
               after |-> "none", call |-> 0, before |-> {}, flushes |-> 0,
               ready |-> FALSE]

\* History: how a Logger object was made (which constructor, from which
\* Logger, with which Context argument).
NoOrigin == [kind |-> "Logger", source |-> 0, context |-> DefaultContext]

NoLogger == [st |-> "none", config |-> DefaultConfig, context |-> DefaultContext,
             level |-> 0, sinkset |-> << >>, tp |-> NoPool, levelSet |-> FALSE,
             origin |-> NoOrigin]

NoPoolRec == [state |-> "Idle", q |-> << >>, cap |-> 0, workers |-> << >>]

NoSinks == [k \in SinkKinds \cup {"netdrop"} |-> << >>]

NoFlush == [l |-> 0, before |-> {}, flushes |-> 0, async |-> FALSE, posted |-> FALSE]

IdleWorker == [pc |-> "wait", msg |-> NoMsg]

\* The adapter objects of the sink model, and the null adapter pointer.
Adapters == {1, 2}
NoAdapter == 0

\* A thread of the sink model that is in no call.
SkIdle == [pc |-> "idle", call |-> 0, pos |-> 0, payload |-> "",
           checked |-> NoAdapter, arg |-> NoAdapter]

\* The sink model before it is given a Logger; it stays so in the pipeline
\* model.
SinkModelOff ==
    /\ skConfig = [format |-> "Terminal", asyncMode |-> "Sync", sinkset |-> << >>]
    /\ skThreads = [c \in Clients |-> SkIdle]
    /\ skLocks = [k \in SinkKinds |-> 0]
    /\ skAdapter = NoAdapter
    /\ skEnv = [conn |-> [a \in Adapters |-> TRUE], throws |-> {}]
    /\ skOut = [console |-> << >>, file |-> << >>,
                sent |-> [a \in Adapters |-> << >>], errors |-> << >>]
    /\ skCalls = << >>
    /\ skOps = 0

\* A thread of the race model that is in no call.
RcIdle == [pc |-> "idle", todo |-> << >>]

\* The race model before it is given a Logger.
NoRace == [st |-> "off", format |-> "Terminal", fields |-> LogFieldConfig,
           reader |-> [RcIdle EXCEPT !.pc = "off"],
           writer |-> [RcIdle EXCEPT !.pc = "off"],
           arg |-> LogFieldConfig, asFormat |-> "Terminal", read |-> << >>,
           installed |-> {}, formats |-> {}, out |-> "", sets |-> 0]

\* A Logger of the file model that has not been made: no file sink.
NoFileSink == [st |-> "none", path |-> NoPath, kind |-> "Logger", source |-> 0,
               buf |-> << >>, pos |-> 0, lock |-> 0]

\* A thread of the file model that is in no call.
FsIdle == [pc |-> "idle", l |-> 0, id |-> 0]

\* An unwritten place of the file (a hole).
NoCell == [id |-> 0, by |-> 0, open |-> 0]

\* The file model before it is given a Logger.
NoFiles == [st |-> "off", lg |-> [l \in LoggerIds |-> NoFileSink],
            th |-> [c \in Clients |-> FsIdle], disk |-> << >>,
            append |-> FALSE, opens |-> 0, records |-> 0, lost |-> {}, ops |-> 0]

\* The format model before it is given inputs.
NoFormat == [st |-> "off", fields |-> LogFieldConfig, context |-> DefaultContext,
             level |-> "Info", message |-> "", entry |-> << >>, out |-> ""]

(***************************************************************************)
(* spdlog::details::mpmc_blocking_queue and thread_pool                    *)
(***************************************************************************)
\* (Variant: an enqueue that never waits for room.)
CanPushAlways(q, cap) == TRUE

\* enqueue() under async_overflow_policy::block waits while the queue is full.
CanPush(q, cap) == Len(q) < cap

\* (Variant: a dequeue that takes the newest item.)
DequeueNewest(q) == <<q[Len(q)], SubSeq(q, 1, Len(q) - 1)>>

\* dequeue: the oldest item and the rest of the queue.
Dequeue(q) == <<Head(q), Tail(q)>>

\* (Variant: the stop signal overtakes the queued records.)
PushTerminateFront(q) == <<[NoMsg EXCEPT !.type = "terminate"]>> \o q

\* ~thread_pool posts its terminate messages through the same queue, behind
\* whatever is queued.
PushTerminate(q) == Append(q, [NoMsg EXCEPT !.type = "terminate"])

\* (Variant: a pool of one worker whatever asyncThreadCount says.)
NewPoolOneWorker(config) ==
    [state |-> "Running", q |-> << >>, cap |-> config.asyncQueueSize,
     workers |-> <<IdleWorker>>]

\* thread_pool(q_max_items, threads_n): the queue and threads_n running workers.
NewPool(config) ==
    [state |-> "Running", q |-> << >>, cap |-> config.asyncQueueSize,
     workers |-> [i \in 1..config.asyncThreadCount |-> IdleWorker]]

\* The clients that hold a locked (strong) pointer to pool p: inside post_log /
\* post_flush, or waiting on the flush future.
Holders(p) == {c \in Clients : clients[c].pc \in {"post", "flushwait"}
                               /\ clients[c].p = p}

\* weak_ptr<thread_pool>::lock() fails once the pool's destructor has begun.
Expired(p) == p = NoPool \/ pools[p].state \in {"Draining", "Stopped"}

\* A client call of the given kind is made: one less may follow.
Spend(kind) ==
    /\ budget.ops > 0
    /\ budget[kind] > 0
    /\ budget' = [budget EXCEPT !.ops = @ - 1, ![kind] = @ - 1]

\* A log call has returned when no client is still inside it.
Returned(id) == \A c \in Clients : clients[c].call # id

(***************************************************************************)
(* Sinks                                                                   *)
(***************************************************************************)
\* (Variant: the network sink sends without asking isConnected().)
NetworkSendsAnyway(up) == TRUE

\* NetworkSink::sink_it_: send only when the adapter is connected.
NetworkAccepts(up) == up

\* (Variant: the worker renders the record when it dispatches it.)
DispatchPayloadLate(msg) ==
    Render(loggers[msg.logger].config.format, loggers[msg.logger].config.fields,
           loggers[msg.logger].context, calls[msg.id].c, msg.level,
           calls[msg.id].message, Location)

\* The string the sinks are handed for a queued message: the payload copied
\* into the async message by the log call.
DispatchPayload(msg) == msg.payload

\* (Variant: the loop over the sinks stops after the first one.)
DeliverFirstOnly(acc, sinkset, id, payload, up) ==
    [k \in DOMAIN acc |->
        IF sinkset # << >> /\ k = sinkset[1] /\ k # "network"
        THEN Append(acc[k], <<id, payload>>) ELSE acc[k]]

\* (Variant: the network sink is handed a string of its own making.)
DeliverNetworkOwnString(acc, sinkset, id, payload, up) ==
    [k \in DOMAIN acc |->
        IF \E i \in 1..Len(sinkset) : sinkset[i] = k
        THEN Append(acc[k], <<id, IF k = "network"
                                  THEN Quoted(payload) ELSE payload>>)
        ELSE acc[k]]

\* spdlog::logger::sink_it_ / async_logger::backend_sink_it_: every sink of the
\* logger is handed the message ("netdrop" records what the network sink skipped).
Deliver(acc, sinkset, id, payload, up) ==
    [k \in DOMAIN acc |->
        IF k \in {"console", "file"} /\ \E i \in 1..Len(sinkset) : sinkset[i] = k
            THEN Append(acc[k], <<id, payload>>)
        ELSE IF k = "network" /\ (\E i \in 1..Len(sinkset) : sinkset[i] = k)
                /\ NetworkAccepts(up)
            THEN Append(acc[k], <<id, payload>>)
        ELSE IF k = "netdrop" /\ (\E i \in 1..Len(sinkset) : sinkset[i] = "network")
                /\ ~NetworkAccepts(up)
            THEN Append(acc[k], <<id, payload>>)
        ELSE acc[k]]

(***************************************************************************)
(* Construction                                                            *)
(***************************************************************************)
InitContext == [appName |-> "App", moduleName |-> "Mod"]

\* The Logger object once initializeLogger has returned (line 278: level trace).
BuiltLogger(config, context) ==
    [st |-> "alive", config |-> config, context |-> context,
     level |-> 0, sinkset |-> SinksOf(config),
     tp |-> NoPool, levelSet |-> FALSE, origin |-> NoOrigin]

\* (Variant: the copy forgets the field selection set at run time.)
CopiedConfigStale(config) == [config EXCEPT !.fields = LogFieldConfig]

\* Config newConfig = source.config (line 159); config(other.config) (line 150)
CopiedConfig(config) == config

InitWith(ops) ==
    /\ \E config \in Configs :
        /\ loggers = [l \in LoggerIds |->
              IF l = 1
              THEN [BuiltLogger(config, InitContext) EXCEPT
                       !.tp = IF config.asyncMode = "Async" THEN 1 ELSE NoPool]
              ELSE NoLogger]
        /\ registry = IF config.asyncMode = "Async" THEN 1 ELSE NoPool
        /\ pools = [l \in LoggerIds |->
              IF l = 1 /\ config.asyncMode = "Async"
              THEN NewPool(config) ELSE NoPoolRec]
    /\ sinks = [l \in LoggerIds |-> NoSinks]
    /\ sinkFlushes = [l \in LoggerIds |-> 0]
    /\ clients = [c \in Clients |-> IdleClient]
    /\ adapterUp = TRUE
    /\ flushWaits \in BOOLEAN
    /\ calls = << >>
    /\ flushRet = [c \in Clients |-> NoFlush]
    /\ budget = [ops |-> ops, log |-> ops, cfg |-> ops, flush |-> ops]
    /\ SinkModelOff
    /\ fm = NoFormat
    /\ rc = NoRace
    /\ fs = NoFiles

Init == InitWith(MaxOps)

\* (Variant: the new Logger starts at the level of the Logger it was made
\* from.)
StartLevelOfSource(origin) ==
    IF origin.source # 0 THEN loggers[origin.source].level
    ELSE toSpdlogLevel("Trace")

\* Logger::initializeLogger, line 278: this->logger->set_level(trace), however
\* the Logger is being made.
StartLevel(origin) == toSpdlogLevel("Trace")

\* registry::set_tp holds the registry's pool mutex while it swaps the pool,
\* the previous pool's destructor included.
RegistryLocked ==
    \E c \in Clients : clients[c].pc = "tpdtor" /\ clients[c].after = "ctor"

\* Logger::initializeLogger, run by client c for the new Logger l.
\* Async: init_thread_pool builds a new global pool and drops the registry's
\* pointer to the previous one; if no client holds that pool, its destructor
\* runs here, on the constructing thread, before the async_logger is made
\* (lines 270-272) and the level is set (line 278).
initializeLogger(c, l, config, context, origin) ==
    LET old == registry
        built == [BuiltLogger(config, context) EXCEPT
                     !.origin = origin, !.level = StartLevel(origin)]
    IN
    /\ (config.asyncMode = "Async" /\ ~OpenFails(config.logFilePath))
          => ~RegistryLocked
    /\ IF OpenFails(config.logFilePath)
       THEN \* lines 252-258: basic_file_sink_mt throws; the constructor is left
            \* by the exception before line 268, and no Logger object exists
            /\ loggers' = [loggers EXCEPT ![l] = [NoLogger EXCEPT !.st = "failed"]]
            /\ UNCHANGED <<registry, pools, clients, sinks>>
       ELSE IF config.asyncMode = "Async"
       THEN /\ sinks' = [sinks EXCEPT ![l] = NoSinks]
            /\ registry' = l
            /\ IF old # NoPool /\ Holders(old) = {}
               THEN /\ pools' = [pools EXCEPT ![l] = NewPool(config),
                                              ![old].state = "Draining"]
                    /\ loggers' = [loggers EXCEPT
                          ![l] = [built EXCEPT !.st = "constructing", !.tp = l]]
                    /\ clients' = [clients EXCEPT
                          ![c] = [IdleClient EXCEPT
                                     !.pc = "tpdtor", !.l = l, !.p = old,
                                     !.left = Len(pools[old].workers),
                                     !.after = "ctor"]]
               ELSE /\ pools' = [pools EXCEPT ![l] = NewPool(config)]
                    /\ loggers' = [loggers EXCEPT ![l] = [built EXCEPT !.tp = l]]
                    /\ UNCHANGED clients
       ELSE /\ sinks' = [sinks EXCEPT ![l] = NoSinks]
            /\ loggers' = [loggers EXCEPT ![l] = built]
            /\ UNCHANGED <<registry, pools, clients>>
    /\ budget.ops > 0
    /\ budget' = [budget EXCEPT !.ops = @ - 1]
    /\ UNCHANGED <<sinkFlushes, adapterUp, flushWaits, calls, flushRet>>

\* The next Logger object to come into being.
Fresh(l) == /\ loggers[l].st = "none"
            /\ \A k \in LoggerIds : k < l => loggers[k].st # "none"

\* explicit Logger(const Config & initialConfig)
NewLogger(c, l) ==
    /\ clients[c].pc = "idle"
    /\ Fresh(l)
    /\ \E config \in Configs \cup BadFileConfigs :
          initializeLogger(c, l, config, DefaultContext, NoOrigin)

\* Logger(const Logger & other)
CopyLogger(c, l, other) ==
    /\ clients[c].pc = "idle"
    /\ Fresh(l)
    /\ loggers[other].st = "alive"
    /\ initializeLogger(c, l, CopiedConfig(loggers[other].config),
                        loggers[other].context,
                        [kind |-> "copy", source |-> other,
                         context |-> loggers[other].context])

\* static Logger WithConfigFrom(const Logger & source, const Context & newContext)
WithConfigFrom(c, l, source) ==
    /\ clients[c].pc = "idle"
    /\ Fresh(l)
    /\ loggers[source].st = "alive"
    /\ \E newContext \in Contexts :
          initializeLogger(c, l, CopiedConfig(loggers[source].config), newContext,
                           [kind |-> "WithConfigFrom", source |-> source,
                            context |-> newContext])

\* The Logger object goes out of scope (no user-written destructor: its
\* shared_ptr<spdlog::logger> is released, the global pool is not touched).
DestroyLogger(c, l) ==
    /\ clients[c].pc = "idle"
    /\ loggers[l].st = "alive"
    /\ \A d \in Clients : clients[d].pc = "idle" \/ clients[d].l # l
    /\ loggers' = [loggers EXCEPT ![l].st = "destroyed"]
    /\ budget.ops > 0
    /\ budget' = [budget EXCEPT !.ops = @ - 1]
    /\ UNCHANGED <<registry, pools, sinks, sinkFlushes, clients, adapterUp,
                   flushWaits, calls, flushRet>>

(***************************************************************************)
(* Logging                                                                 *)
(***************************************************************************)
\* Logger::log, lines 287-293: the record is formatted before spdlog's
\* logger::log is called, whatever the level.
FormatRuns(loggerLevel, level) == TRUE

\* A client that lets go of its locked pointer to pool p: the last owner of a
\* pool the registry no longer holds runs ~thread_pool (post one terminate
\* message per worker, then join); otherwise the call returns.
Release(c, p) ==
    IF registry # p /\ Holders(p) \ {c} = {}
    THEN /\ pools' = [pools EXCEPT ![p].state = "Draining"]
         /\ clients' = [clients EXCEPT
               ![c] = [clients[c] EXCEPT !.pc = "tpdtor", !.msg = NoMsg,
                          !.left = Len(pools[p].workers), !.after = "return"]]
    ELSE /\ clients' = [clients EXCEPT ![c] = IdleClient]
         /\ UNCHANGED pools

\* Logger::trace/debug/info/warning/error/critical -> Logger::log(level, ...)
Log(c, l, level) ==
    LET lg == loggers[l]
        id == Len(calls) + 1
        message == "M" \o ToString(id)
        formatted == FormatRuns(lg.level, toSpdlogLevel(level))
        payload == IF formatted
                   THEN Render(lg.config.format, lg.config.fields, lg.context,
                               c, level, message, Location)
                   ELSE ""
        pass == should_log(lg.level, toSpdlogLevel(level))
        call == [l |-> l, c |-> c, level |-> level, min |-> lg.level,
                 levelSet |-> lg.levelSet, format |-> lg.config.format,
                 fields |-> lg.config.fields, context |-> lg.context,
                 message |-> message, formatted |-> formatted, pass |-> pass,
                 outcome |-> "filtered", blocked |-> FALSE,
                 overtaken |-> FALSE]
        msg == [type |-> "log", logger |-> l, id |-> id, level |-> level,
                payload |-> payload]
        p == lg.tp
    IN
    /\ clients[c].pc = "idle"
    /\ lg.st = "alive"
    /\ Spend("log")
    /\ UNCHANGED <<loggers, registry, sinkFlushes, adapterUp, flushWaits,
                   flushRet>>
    /\ IF ~pass
       THEN \* logger::log: should_log is false, nothing else happens
            /\ calls' = Append(calls, call)
            /\ UNCHANGED <<pools, sinks, clients>>
       ELSE IF lg.config.asyncMode = "Sync"
       THEN \* logger::sink_it_ on the calling thread
            /\ calls' = Append(calls, [call EXCEPT !.outcome = "sync"])
            /\ sinks' = [sinks EXCEPT ![l] =
                  Deliver(sinks[l], lg.sinkset, id, payload, adapterUp)]
            /\ UNCHANGED <<pools, clients>>
       ELSE IF Expired(p)
       THEN \* async_logger::sink_it_: "thread pool doesn't exist anymore",
            \* handed to the error handler; the record goes nowhere
            /\ calls' = Append(calls, [call EXCEPT !.outcome = "nopool"])
            /\ UNCHANGED <<pools, sinks, clients>>
       ELSE IF CanPush(pools[p].q, pools[p].cap)
       THEN /\ calls' = Append(calls, [call EXCEPT !.outcome = "posted"])
            /\ pools' = [pools EXCEPT ![p].q = Append(@, msg)]
            /\ UNCHANGED <<sinks, clients>>
       ELSE \* queue full: the caller waits inside post_log
            /\ calls' = Append(calls, [call EXCEPT !.outcome = "waiting",
                                                   !.blocked = TRUE])
            /\ clients' = [clients EXCEPT
                  ![c] = [IdleClient EXCEPT !.pc = "post", !.l = l, !.p = p,
                                           !.msg = msg, !.call = id]]
            /\ UNCHANGED <<pools, sinks>>

\* Logger::flush
Flush(c, l) ==
    LET lg == loggers[l]
        p == lg.tp
        before == {id \in 1..Len(calls) : calls[id].l = l /\ Returned(id)}
        ret == [l |-> l, before |-> before, flushes |-> sinkFlushes[l],
                async |-> lg.config.asyncMode = "Async", posted |-> FALSE]
        msg == [NoMsg EXCEPT !.type = "flush", !.logger = l, !.id = c]
        waiting == [IdleClient EXCEPT !.l = l, !.p = p, !.msg = msg,
                                      !.before = before,
                                      !.flushes = sinkFlushes[l]]
    IN
    /\ clients[c].pc = "idle"
    /\ lg.st = "alive"
    /\ Spend("flush")
    /\ UNCHANGED <<loggers, registry, sinks, adapterUp, flushWaits, calls>>
    /\ IF lg.config.asyncMode = "Sync"
       THEN \* logger::flush_: every sink is flushed on the calling thread
            /\ sinkFlushes' = [sinkFlushes EXCEPT ![l] = @ + 1]
            /\ flushRet' = [flushRet EXCEPT ![c] = ret]
            /\ UNCHANGED <<pools, clients>>
       ELSE IF Expired(p)
       THEN \* async_logger::flush_: no pool, error handler, nothing flushed
            /\ flushRet' = [flushRet EXCEPT ![c] = ret]
            /\ UNCHANGED <<pools, sinkFlushes, clients>>
       ELSE IF CanPush(pools[p].q, pools[p].cap)
       THEN /\ pools' = [pools EXCEPT ![p].q = Append(@, msg)]
            /\ UNCHANGED sinkFlushes
            /\ IF flushWaits
               THEN /\ clients' = [clients EXCEPT
                          ![c] = [waiting EXCEPT !.pc = "flushwait"]]
                    /\ UNCHANGED flushRet
               ELSE /\ flushRet' = [flushRet EXCEPT
                          ![c] = [ret EXCEPT !.posted = TRUE]]
                    /\ UNCHANGED clients
       ELSE /\ clients' = [clients EXCEPT ![c] = [waiting EXCEPT !.pc = "post"]]
            /\ UNCHANGED <<pools, sinkFlushes, flushRet>>

\* A caller blocked in post_log / post_flush gets room in the queue.
PostUnblock(c) ==
    LET p == clients[c].p
        msg == clients[c].msg
        ret == [l |-> clients[c].l, before |-> clients[c].before,
                flushes |-> clients[c].flushes, async |-> TRUE,
                posted |-> TRUE]
    IN
    /\ clients[c].pc = "post"
    /\ CanPush(pools[p].q, pools[p].cap)
    /\ calls' = IF msg.type = "log"
                THEN [calls EXCEPT ![msg.id].outcome = "posted"] ELSE calls
    /\ UNCHANGED <<loggers, registry, sinks, sinkFlushes, adapterUp, flushWaits,
                   budget>>
    /\ IF msg.type = "flush" /\ flushWaits
       THEN /\ pools' = [pools EXCEPT ![p].q = Append(@, msg)]
            /\ clients' = [clients EXCEPT ![c].pc = "flushwait"]
            /\ UNCHANGED flushRet
       ELSE /\ flushRet' = IF msg.type = "flush"
                           THEN [flushRet EXCEPT ![c] = ret] ELSE flushRet
            /\ IF registry # p /\ Holders(p) \ {c} = {}
               THEN /\ pools' = [pools EXCEPT ![p].q = Append(@, msg),
                                              ![p].state = "Draining"]
                    /\ clients' = [clients EXCEPT
                          ![c] = [clients[c] EXCEPT
                                     !.pc = "tpdtor", !.msg = NoMsg,
                                     !.left = Len(pools[p].workers),
                                     !.after = "return"]]
               ELSE /\ pools' = [pools EXCEPT ![p].q = Append(@, msg)]
                    /\ clients' = [clients EXCEPT ![c] = IdleClient]

\* The flush future of a waiting flush() is ready: flush() returns.
FlushReturn(c) ==
    LET p == clients[c].p
        l == clients[c].l
    IN
    /\ clients[c].pc = "flushwait"
    /\ clients[c].ready
    /\ flushRet' = [flushRet EXCEPT
          ![c] = [l |-> l, before |-> clients[c].before,
                  flushes |-> clients[c].flushes, async |-> TRUE,
                  posted |-> TRUE]]
    /\ Release(c, p)
    /\ UNCHANGED <<loggers, registry, sinks, sinkFlushes, adapterUp, flushWaits,
                   calls, budget>>

(***************************************************************************)
(* History of the log calls                                                *)
(***************************************************************************)
CallIds == 1..Len(calls)

\* The number of times sink `kind` of Logger l was handed record id.
Count(l, kind, id) ==
    Cardinality({i \in 1..Len(sinks[l][kind]) : sinks[l][kind][i][1] = id})

\* Record id reached no sink of any Logger.
Untouched(id) ==
    \A l \in LoggerIds : \A kind \in DOMAIN sinks[l] : Count(l, kind, id) = 0

\* History: the records of Logger l that are enqueued and not yet dispatched
\* are marked when the Logger's configuration is changed under them.
MarkOvertaken(l) ==
    [id \in DOMAIN calls |->
        IF calls[id].l = l /\ calls[id].outcome = "posted" /\ Untouched(id)
        THEN [calls[id] EXCEPT !.overtaken = TRUE] ELSE calls[id]]

(***************************************************************************)
(* Setters                                                                 *)
(***************************************************************************)
\* Logger::setLevel
setLevel(c, l, level) ==
    /\ clients[c].pc = "idle"
    /\ loggers[l].st = "alive"
    /\ Spend("cfg")
    /\ loggers' = [loggers EXCEPT ![l].level = toSpdlogLevel(level),
                                  ![l].levelSet = TRUE]
    /\ UNCHANGED <<registry, pools, sinks, sinkFlushes, clients, adapterUp,
                   flushWaits, calls, flushRet>>

\* Logger::SetFieldConfig
SetFieldConfig(c, l, fields) ==
    /\ clients[c].pc = "idle"
    /\ loggers[l].st = "alive"
    /\ Spend("cfg")
    /\ loggers[l].config.fields # fields
    /\ loggers' = [loggers EXCEPT ![l].config.fields = fields]
    /\ calls' = MarkOvertaken(l)
    /\ UNCHANGED <<registry, pools, sinks, sinkFlushes, clients, adapterUp,
                   flushWaits, flushRet>>

\* Logger::SetOutputFormat
SetOutputFormat(c, l, format) ==
    /\ clients[c].pc = "idle"
    /\ loggers[l].st = "alive"
    /\ Spend("cfg")
    /\ loggers[l].config.format # format
    /\ loggers' = [loggers EXCEPT ![l].config.format = format]
    /\ calls' = MarkOvertaken(l)
    /\ UNCHANGED <<registry, pools, sinks, sinkFlushes, clients, adapterUp,
                   flushWaits, flushRet>>

(***************************************************************************)
(* thread_pool: worker_loop_ / process_next_msg_ and the destructor        *)
(***************************************************************************)
Live(p) == pools[p].state \in {"Running", "Draining"}

\* A waiting worker takes the next log or flush message.
WorkerDequeue(p, w) ==
    /\ Live(p)
    /\ pools[p].workers[w].pc = "wait"
    /\ pools[p].q # << >>
    /\ Dequeue(pools[p].q)[1].type # "terminate"
    /\ pools' = [pools EXCEPT
          ![p].q = Dequeue(pools[p].q)[2],
          ![p].workers[w] = [pc |-> "busy", msg |-> Dequeue(pools[p].q)[1]]]
    /\ UNCHANGED <<loggers, registry, sinks, sinkFlushes, clients, adapterUp,
                   flushWaits, calls, flushRet, budget>>

\* A waiting worker takes a terminate message and leaves its loop.
WorkerTerminate(p, w) ==
    /\ Live(p)
    /\ pools[p].workers[w].pc = "wait"
    /\ pools[p].q # << >>
    /\ Dequeue(pools[p].q)[1].type = "terminate"
    /\ pools' = [pools EXCEPT
          ![p].q = Dequeue(pools[p].q)[2],
          ![p].workers[w] = [pc |-> "exited", msg |-> NoMsg]]
    /\ UNCHANGED <<loggers, registry, sinks, sinkFlushes, clients, adapterUp,
                   flushWaits, calls, flushRet, budget>>

\* async_msg_type::log: worker_ptr->backend_sink_it_(msg)
WorkerDispatch(p, w) ==
    LET msg == pools[p].workers[w].msg IN
    /\ Live(p)
    /\ pools[p].workers[w].pc = "busy"
    /\ msg.type = "log"
    /\ sinks' = [sinks EXCEPT ![msg.logger] =
          Deliver(sinks[msg.logger], loggers[msg.logger].sinkset, msg.id,
                  DispatchPayload(msg), adapterUp)]
    /\ pools' = [pools EXCEPT ![p].workers[w] = IdleWorker]
    /\ UNCHANGED <<loggers, registry, sinkFlushes, clients, adapterUp,
                   flushWaits, calls, flushRet, budget>>

\* async_msg_type::flush: worker_ptr->backend_flush_(), then the flush future
\* of a waiting caller becomes ready.
WorkerFlush(p, w) ==
    LET msg == pools[p].workers[w].msg IN
    /\ Live(p)
    /\ pools[p].workers[w].pc = "busy"
    /\ msg.type = "flush"
    /\ sinkFlushes' = [sinkFlushes EXCEPT ![msg.logger] = @ + 1]
    /\ clients' = IF clients[msg.id].pc = "flushwait"
                  THEN [clients EXCEPT ![msg.id].ready = TRUE]
                  ELSE clients
    /\ pools' = [pools EXCEPT ![p].workers[w] = IdleWorker]
    /\ UNCHANGED <<loggers, registry, sinks, adapterUp, flushWaits, calls,
                   flushRet, budget>>

\* ~thread_pool, first loop: one terminate message per worker, each a
\* blocking enqueue.
PostTerminate(c) ==
    LET p == clients[c].p IN
    /\ clients[c].pc = "tpdtor"
    /\ clients[c].left > 0
    /\ CanPush(pools[p].q, pools[p].cap)
    /\ pools' = [pools EXCEPT ![p].q = PushTerminate(@)]
    /\ clients' = [clients EXCEPT ![c].left = @ - 1]
    /\ UNCHANGED <<loggers, registry, sinks, sinkFlushes, adapterUp, flushWaits,
                   calls, flushRet, budget>>

\* ~thread_pool, second loop: every worker joined; the caller goes on (a
\* constructor makes its async_logger, a log/flush call returns).
JoinThreads(c) ==
    LET p == clients[c].p IN
    /\ clients[c].pc = "tpdtor"
    /\ clients[c].left = 0
    /\ \A w \in DOMAIN pools[p].workers : pools[p].workers[w].pc = "exited"
    /\ pools' = [pools EXCEPT ![p].state = "Stopped"]
    /\ loggers' = IF clients[c].after = "ctor"
                  THEN [loggers EXCEPT ![clients[c].l].st = "alive"]
                  ELSE loggers
    /\ clients' = [clients EXCEPT ![c] = IdleClient]
    /\ UNCHANGED <<registry, sinks, sinkFlushes, adapterUp, flushWaits, calls,
                   flushRet, budget>>

\* The network peer comes or goes: the adapter's isConnected() changes.
AdapterChange ==
    /\ \E l \in LoggerIds : loggers[l].st # "none"
                            /\ loggers[l].config.networkAdapter
    /\ adapterUp' = ~adapterUp
    /\ budget.ops > 0
    /\ budget' = [budget EXCEPT !.ops = @ - 1]
    /\ UNCHANGED <<loggers, registry, pools, sinks, sinkFlushes, clients,
                   flushWaits, calls, flushRet>>

Next ==
    \/ \E c \in Clients, l \in LoggerIds : NewLogger(c, l)
          /\ UNCHANGED <<svars, fm, rc, fs>>
    \/ \E c \in Clients, l \in LoggerIds, o \in LoggerIds : CopyLogger(c, l, o)
          /\ UNCHANGED <<svars, fm, rc, fs>>
    \/ \E c \in Clients, l \in LoggerIds, o \in LoggerIds : WithConfigFrom(c, l, o)
          /\ UNCHANGED <<svars, fm, rc, fs>>
    \/ \E c \in Clients, l \in LoggerIds : DestroyLogger(c, l)
          /\ UNCHANGED <<svars, fm, rc, fs>>
    \/ \E c \in Clients, l \in LoggerIds, v \in LogInputLevels : Log(c, l, v)
          /\ UNCHANGED <<svars, fm, rc, fs>>
    \/ \E c \in Clients, l \in LoggerIds : Flush(c, l)
          /\ UNCHANGED <<svars, fm, rc, fs>>
    \/ \E c \in Clients : PostUnblock(c)
          /\ UNCHANGED <<svars, fm, rc, fs>>
    \/ \E c \in Clients : FlushReturn(c)
          /\ UNCHANGED <<svars, fm, rc, fs>>
    \/ \E c \in Clients, l \in LoggerIds, v \in SetLevelInputs : setLevel(c, l, v)
          /\ UNCHANGED <<svars, fm, rc, fs>>
    \/ \E c \in Clients, l \in LoggerIds, f \in FieldChoices : SetFieldConfig(c, l, f)
          /\ UNCHANGED <<svars, fm, rc, fs>>
    \/ \E c \in Clients, l \in LoggerIds, f \in OutputFormat : SetOutputFormat(c, l, f)
          /\ UNCHANGED <<svars, fm, rc, fs>>
    \/ \E p \in LoggerIds : \E w \in DOMAIN pools[p].workers : WorkerDequeue(p, w)
          /\ UNCHANGED <<svars, fm, rc, fs>>
    \/ \E p \in LoggerIds : \E w \in DOMAIN pools[p].workers : WorkerTerminate(p, w)
          /\ UNCHANGED <<svars, fm, rc, fs>>
    \/ \E p \in LoggerIds : \E w \in DOMAIN pools[p].workers : WorkerDispatch(p, w)
          /\ UNCHANGED <<svars, fm, rc, fs>>
    \/ \E p \in LoggerIds : \E w \in DOMAIN pools[p].workers : WorkerFlush(p, w)
          /\ UNCHANGED <<svars, fm, rc, fs>>
    \/ \E c \in Clients : PostTerminate(c)
          /\ UNCHANGED <<svars, fm, rc, fs>>
    \/ \E c \in Clients : JoinThreads(c)
          /\ UNCHANGED <<svars, fm, rc, fs>>
    \/ AdapterChange
          /\ UNCHANGED <<svars, fm, rc, fs>>

Spec == Init /\ [][Next]_vars

(***************************************************************************)
(* The same program with the scheduling of its threads stated: a worker    *)
(* thread that can take a step eventually takes one, and a thread inside   *)
(* ~thread_pool eventually posts its terminate messages and joins.         *)
(***************************************************************************)
Workers ==
    /\ \E p \in LoggerIds : \E w \in DOMAIN pools[p].workers :
          \/ WorkerDequeue(p, w)
          \/ WorkerTerminate(p, w)
          \/ WorkerDispatch(p, w)
          \/ WorkerFlush(p, w)
    /\ UNCHANGED <<svars, fm, rc, fs>>

PoolDestructor ==
    /\ \E c \in Clients : PostTerminate(c) \/ JoinThreads(c)
    /\ UNCHANGED <<svars, fm, rc, fs>>

LiveInit == InitWith(MaxLiveOps)

FairSpec == LiveInit /\ [][Next]_vars /\ WF_vars(Workers) /\ WF_vars(PoolDestructor)

(***************************************************************************)
(* One Logger's log call followed through its sinks, one sink at a time:   *)
(* Logger::log formats, then spdlog's logger::sink_it_ (Sync, on the       *)
(* calling thread) or async_logger::backend_sink_it_ (Async, on a worker,  *)
(* after the call has returned) hands the message to each sink of the      *)
(* sinks vector in turn, each under the sink's own mutex_ and each inside  *)
(* its own try/catch that reports to the logger's error handler.           *)
(***************************************************************************)
MaxSinkOps == 3

Messages == {"hi", BadBytes}

\* The pipeline model, unused in the sink and format models.
PipelineOff ==
    /\ loggers = [l \in LoggerIds |-> NoLogger]
    /\ registry = NoPool
    /\ pools = [l \in LoggerIds |-> NoPoolRec]
    /\ sinks = [l \in LoggerIds |-> NoSinks]
    /\ sinkFlushes = [l \in LoggerIds |-> 0]
    /\ clients = [c \in Clients |-> IdleClient]
    /\ adapterUp = TRUE
    /\ flushWaits = FALSE
    /\ calls = << >>
    /\ flushRet = [c \in Clients |-> NoFlush]
    /\ budget = [ops |-> 0, log |-> 0, cfg |-> 0, flush |-> 0]

SinkInit ==
    /\ PipelineOff
    /\ fm = NoFormat
    /\ rc = NoRace
    /\ fs = NoFiles
    /\ \E config \in Configs, format \in OutputFormat, mode \in {"Sync", "Async"} :
          /\ skConfig = [format |-> format, asyncMode |-> mode,
                         sinkset |-> SinksOf(config)]
          \* NetworkSink(config.networkAdapter), line 262
          /\ skAdapter = IF config.networkAdapter THEN 1 ELSE NoAdapter
    /\ skThreads = [c \in Clients |-> SkIdle]
    /\ skLocks = [k \in SinkKinds |-> 0]
    /\ skEnv = [conn |-> [a \in Adapters |-> TRUE], throws |-> {}]
    /\ skOut = [console |-> << >>, file |-> << >>,
                sent |-> [a \in Adapters |-> << >>], errors |-> << >>]
    /\ skCalls = << >>
    /\ skOps = MaxSinkOps

\* (Variant: a sink that throws ends the loop over the sinks.)
AfterThrowLeave(pos, n) == n + 1

\* The per-sink try/catch of sink_it_: after a sink has thrown, the loop goes
\* on with the next sink.
AfterThrow(pos, n) == pos + 1

\* (Variant: setAdapter without the lock_guard.)
SetAdapterUnlocked(owner) == TRUE

\* NetworkSink::setAdapter, line 78: std::lock_guard on mutex_.
SetAdapterMayEnter(owner) == owner = 0

\* The thread is done with the sink at `pos` and goes to position `next`; past
\* the last sink the dispatch of the record is over.
SkAdvance(t, next) ==
    IF next > Len(skConfig.sinkset)
    THEN [skThreads EXCEPT ![t] = SkIdle]
    ELSE [skThreads EXCEPT ![t].pc = "sinks", ![t].pos = next]

SkFinished(next) == next > Len(skConfig.sinkset)

\* (Variant: a log call that returns before the sinks are handed the record,
\* whatever the mode.)
ReturnsBeforeDispatchAlways(mode) == TRUE

\* Lines 268-276: the async_logger's log only posts the message and returns;
\* the spdlog::logger of Sync mode walks its sinks inside log, before it
\* returns.
ReturnsBeforeDispatch(mode) == mode = "Async"

\* Logger::info(message) -> Logger::log: format, then logger->log. A formatter
\* exception leaves log() and reaches the caller (no try/catch in log).
SkLog(t, message) ==
    LET id == Len(skCalls) + 1
        call == [t |-> t, message |-> message, outcome |-> "running",
                 done |-> FALSE, tried |-> << >>, failed |-> {},
                 net |-> "none", checked |-> NoAdapter, conn |-> FALSE,
                 sentTo |-> NoAdapter, overlap |-> FALSE]
    IN
    /\ skThreads[t].pc = "idle"
    /\ skOps > 0
    /\ skOps' = skOps - 1
    /\ IF FormatThrows(skConfig.format, LogFieldConfig, InitContext, t, "Info",
                       message, Location)
       THEN /\ skCalls' = Append(skCalls, [call EXCEPT !.outcome = "threw",
                                                       !.done = TRUE])
            /\ UNCHANGED skThreads
       ELSE /\ skCalls' = Append(skCalls,
                  [call EXCEPT !.outcome =
                      IF ReturnsBeforeDispatch(skConfig.asyncMode)
                      THEN "returned" ELSE "running"])
            /\ skThreads' = [skThreads EXCEPT ![t] =
                  [SkIdle EXCEPT !.pc = "sinks", !.call = id, !.pos = 1,
                     !.payload = Render(skConfig.format, LogFieldConfig,
                                        InitContext, t, "Info", message,
                                        Location)]]
    /\ UNCHANGED <<skConfig, skLocks, skAdapter, skEnv, skOut>>

\* (Variant: base_sink::log without the lock_guard.)
SinkEntersUnlocked(owner) == TRUE

\* base_sink<std::mutex>::log: std::lock_guard on mutex_ lets a thread in
\* only while no thread holds the mutex.
SinkMayEnter(owner) == owner = 0

\* base_sink::log: std::lock_guard on the sink's mutex_.
SkSinkLock(t) ==
    LET k == skConfig.sinkset[skThreads[t].pos] IN
    /\ skThreads[t].pc = "sinks"
    /\ SinkMayEnter(skLocks[k])
    /\ skLocks' = [skLocks EXCEPT ![k] = t]
    /\ skThreads' = [skThreads EXCEPT ![t].pc = "locked"]
    /\ UNCHANGED <<skConfig, skAdapter, skEnv, skOut, skCalls, skOps>>

\* The call's history when its dispatch moves to position `next`.
SkMoved(id, call, next) ==
    [skCalls EXCEPT ![id] =
        [call EXCEPT !.done = SkFinished(next),
                     !.outcome = IF SkFinished(next) THEN "returned" ELSE @]]

\* The console or file sink writes the message, or throws (caught per sink,
\* reported to the error handler).
SkSinkWrite(t) ==
    LET pos == skThreads[t].pos
        k == skConfig.sinkset[pos]
        id == skThreads[t].call
        n == Len(skConfig.sinkset)
        tried == [skCalls[id] EXCEPT !.tried = Append(@, k)]
    IN
    /\ skThreads[t].pc = "locked"
    /\ k \in {"console", "file"}
    /\ skLocks' = [skLocks EXCEPT ![k] = 0]
    /\ IF k \in skEnv.throws
       THEN /\ skOut' = [skOut EXCEPT !.errors = Append(@, <<id, k>>)]
            /\ skThreads' = SkAdvance(t, AfterThrow(pos, n))
            /\ skCalls' = SkMoved(id, [tried EXCEPT !.failed = @ \cup {k}],
                                  AfterThrow(pos, n))
       ELSE /\ skOut' = [skOut EXCEPT ![k] = Append(@, <<id, skThreads[t].payload>>)]
            /\ skThreads' = SkAdvance(t, pos + 1)
            /\ skCalls' = SkMoved(id, tried, pos + 1)
    /\ UNCHANGED <<skConfig, skAdapter, skEnv, skOps>>

\* NetworkSink::sink_it_, line 86: this->adapter && this->adapter->isConnected()
SkNetCheck(t) ==
    LET pos == skThreads[t].pos
        id == skThreads[t].call
        up == skAdapter # NoAdapter /\ skEnv.conn[skAdapter]
        seen == [skCalls[id] EXCEPT !.tried = Append(@, "network"),
                                    !.checked = skAdapter, !.conn = up]
    IN
    /\ skThreads[t].pc = "locked"
    /\ skConfig.sinkset[pos] = "network"
    /\ IF NetworkAccepts(up)
       THEN /\ skThreads' = [skThreads EXCEPT ![t].pc = "send",
                                              ![t].checked = skAdapter]
            /\ skCalls' = [skCalls EXCEPT ![id] = seen]
            /\ UNCHANGED skLocks
       ELSE /\ skThreads' = SkAdvance(t, pos + 1)
            /\ skCalls' = SkMoved(id, [seen EXCEPT !.net = "skipped"], pos + 1)
            /\ skLocks' = [skLocks EXCEPT !["network"] = 0]
    /\ UNCHANGED <<skConfig, skAdapter, skEnv, skOut, skOps>>

\* NetworkSink::sink_it_, lines 87-89: format, then this->adapter->sendLog(...)
\* on the adapter the member holds now. sendLog may throw (caught by the
\* per-sink try/catch); a null adapter here is a null dereference.
SkNetSend(t) ==
    LET pos == skThreads[t].pos
        id == skThreads[t].call
        target == skAdapter
        n == Len(skConfig.sinkset)
        call == [skCalls[id] EXCEPT
                    !.sentTo = target,
                    !.overlap = \E u \in Clients : skThreads[u].pc = "setwait"]
    IN
    /\ skThreads[t].pc = "send"
    /\ skLocks' = [skLocks EXCEPT !["network"] = 0]
    /\ IF target = NoAdapter
       THEN /\ skCalls' = SkMoved(id, [call EXCEPT !.net = "crash"], n + 1)
            /\ skThreads' = SkAdvance(t, n + 1)
            /\ UNCHANGED skOut
       ELSE IF "send" \in skEnv.throws
       THEN /\ skOut' = [skOut EXCEPT !.errors = Append(@, <<id, "network">>)]
            /\ skThreads' = SkAdvance(t, AfterThrow(pos, n))
            /\ skCalls' = SkMoved(id, [call EXCEPT !.net = "threw",
                                                   !.failed = @ \cup {"network"}],
                                  AfterThrow(pos, n))
       ELSE /\ skOut' = [skOut EXCEPT !.sent[target] =
                            Append(@, <<id, skThreads[t].payload>>)]
            /\ skThreads' = SkAdvance(t, pos + 1)
            /\ skCalls' = SkMoved(id, [call EXCEPT !.net = "sent"], pos + 1)
    /\ UNCHANGED <<skConfig, skAdapter, skEnv, skOps>>

\* NetworkSink::setAdapter(a) is called.
SkSetAdapterCall(t, a) ==
    /\ skThreads[t].pc = "idle"
    /\ \E i \in 1..Len(skConfig.sinkset) : skConfig.sinkset[i] = "network"
    /\ a # skAdapter
    /\ skOps > 0
    /\ skOps' = skOps - 1
    /\ skThreads' = [skThreads EXCEPT ![t] = [SkIdle EXCEPT !.pc = "setwait",
                                                            !.arg = a]]
    /\ UNCHANGED <<skConfig, skLocks, skAdapter, skEnv, skOut, skCalls>>

\* NetworkSink::setAdapter, lines 78-79: take mutex_, assign, release.
SkSetAdapter(t) ==
    /\ skThreads[t].pc = "setwait"
    /\ SetAdapterMayEnter(skLocks["network"])
    /\ skAdapter' = skThreads[t].arg
    /\ skThreads' = [skThreads EXCEPT ![t] = SkIdle]
    /\ UNCHANGED <<skConfig, skLocks, skEnv, skOut, skCalls, skOps>>

\* The peer of an adapter comes or goes: its isConnected() changes.
SkAdapterConn(a) ==
    /\ \E i \in 1..Len(skConfig.sinkset) : skConfig.sinkset[i] = "network"
    /\ skOps > 0
    /\ skOps' = skOps - 1
    /\ skEnv' = [skEnv EXCEPT !.conn[a] = ~@]
    /\ UNCHANGED <<skConfig, skThreads, skLocks, skAdapter, skOut, skCalls>>

\* Something starts to fail: the file can no longer be written (the file
\* sink throws spdlog_ex), or the adapters' sendLog throws.
SkFault(what) ==
    /\ what \notin skEnv.throws
    /\ what = "file" => \E i \in 1..Len(skConfig.sinkset) : skConfig.sinkset[i] = "file"
    /\ what = "send" => \E i \in 1..Len(skConfig.sinkset) : skConfig.sinkset[i] = "network"
    /\ skOps > 0
    /\ skOps' = skOps - 1
    /\ skEnv' = [skEnv EXCEPT !.throws = @ \cup {what}]
    /\ UNCHANGED <<skConfig, skThreads, skLocks, skAdapter, skOut, skCalls>>

SinkNext ==
    \/ \E t \in Clients, message \in Messages : SkLog(t, message)
          /\ UNCHANGED <<pvars, fm, rc, fs>>
    \/ \E t \in Clients : SkSinkLock(t)
          /\ UNCHANGED <<pvars, fm, rc, fs>>
    \/ \E t \in Clients : SkSinkWrite(t)
          /\ UNCHANGED <<pvars, fm, rc, fs>>
    \/ \E t \in Clients : SkNetCheck(t)
          /\ UNCHANGED <<pvars, fm, rc, fs>>
    \/ \E t \in Clients : SkNetSend(t)
          /\ UNCHANGED <<pvars, fm, rc, fs>>
    \/ \E t \in Clients, a \in Adapters \cup {NoAdapter} : SkSetAdapterCall(t, a)
          /\ UNCHANGED <<pvars, fm, rc, fs>>
    \/ \E t \in Clients : SkSetAdapter(t)
          /\ UNCHANGED <<pvars, fm, rc, fs>>
    \/ \E a \in Adapters : SkAdapterConn(a)
          /\ UNCHANGED <<pvars, fm, rc, fs>>
    \/ \E what \in {"file", "send"} : SkFault(what)
          /\ UNCHANGED <<pvars, fm, rc, fs>>

SinkSpec == SinkInit /\ [][SinkNext]_vars

(***************************************************************************)
(* The two formatters applied to every field selection, to contexts with   *)
(* and without an application and a module name, to every level and to an *)
(* empty and a non-empty message.                                          *)
(***************************************************************************)
FormatContexts ==
    {[appName |-> a, moduleName |-> m] : a \in {"", "App"}, m \in {"", "Mod"}}

FormatInit ==
    /\ PipelineOff
    /\ SinkModelOff
    /\ rc = NoRace
    /\ fs = NoFiles
    /\ \E fields \in [FieldNames -> BOOLEAN], context \in FormatContexts,
          level \in LogLevels \ {"Off"}, message \in {"", "hi"} :
          fm = [NoFormat EXCEPT !.st = "in", !.fields = fields,
                                !.context = context, !.level = level,
                                !.message = message]

\* Logger::formatJson on the drawn inputs (thread 1, the model's call site).
FmFormatJson ==
    /\ fm.st = "in"
    /\ fm' = [fm EXCEPT
          !.st = "Json",
          !.entry = log_entry(fm.fields, fm.context, 1, fm.level, fm.message,
                              Location),
          !.out = formatJson(fm.fields, fm.context, 1, fm.level, fm.message,
                             Location)]
    /\ UNCHANGED <<pvars, svars, rc, fs>>

\* Logger::formatTerminal on the drawn inputs.
FmFormatTerminal ==
    /\ fm.st = "in"
    /\ fm' = [fm EXCEPT
          !.st = "Terminal",
          !.out = formatTerminal(fm.fields, fm.context, 1, fm.level, fm.message,
                                 Location)]
    /\ UNCHANGED <<pvars, svars, rc, fs>>

FormatNext == FmFormatJson \/ FmFormatTerminal

FormatSpec == FormatInit /\ [][FormatNext]_vars

(***************************************************************************)
(* One log call on one thread while another thread calls SetFieldConfig    *)
(* and SetOutputFormat on the same Logger. Neither setter nor log takes a  *)
(* lock, and config is a plain member: the formatter reads each flag of    *)
(* config.fields where its `if` stands, and the setter's assignment        *)
(* stores the eight flags either in one wide store or member by member,    *)
(* as the build decides.                                                   *)
(***************************************************************************)
MaxRaceSets == 2

\* The order in which formatJson reads the flags (lines 303-330).
JsonReadOrder ==
    <<"includeTime", "includeAppName", "includeProcessId", "includeThreadId",
      "includeModuleName", "includeLogLevel", "includeFile", "includeMessage">>

\* The order in which formatTerminal reads the flags (lines 342-369).
TerminalReadOrder ==
    <<"includeTime", "includeAppName", "includeModuleName", "includeProcessId",
      "includeThreadId", "includeLogLevel", "includeFile", "includeMessage">>

\* The order of the members of struct LogFieldConfig, which a member-wise
\* copy assignment follows.
StoreOrder ==
    <<"includeAppName", "includeProcessId", "includeThreadId",
      "includeModuleName", "includeLogLevel", "includeFile", "includeMessage",
      "includeTime">>

RaceInit ==
    /\ PipelineOff
    /\ SinkModelOff
    /\ fm = NoFormat
    /\ fs = NoFiles
    /\ \E format \in OutputFormat, fields \in FieldChoices :
          rc = [NoRace EXCEPT !.st = "on", !.format = format, !.fields = fields,
                              !.reader = RcIdle, !.writer = RcIdle,
                              !.read = [f \in FieldNames |-> FALSE],
                              !.installed = {fields}, !.formats = {format},
                              !.sets = MaxRaceSets]

\* Logger::info("hi") -> Logger::log, line 289: config.format is read and the
\* formatter it selects is entered.
RcLog ==
    /\ rc.reader.pc = "idle"
    /\ rc' = [rc EXCEPT
          !.asFormat = rc.format,
          !.reader = [pc |-> "format",
                      todo |-> IF rc.format = "Json"
                               THEN JsonReadOrder ELSE TerminalReadOrder]]
    /\ UNCHANGED <<pvars, svars, fm, fs>>

\* The formatter comes to its next `if (this->config.fields.includeX)` and
\* reads the flag as it is in the Logger now (a flag not read yet is shown
\* FALSE in `read`).
RcReadFlag ==
    /\ rc.reader.pc = "format"
    /\ rc.reader.todo # << >>
    /\ rc' = [rc EXCEPT
          !.read[Head(rc.reader.todo)] = rc.fields[Head(rc.reader.todo)],
          !.reader.todo = Tail(@)]
    /\ UNCHANGED <<pvars, svars, fm, fs>>

\* The formatter returns the record it built from the flags it read.
RcReturn ==
    /\ rc.reader.pc = "format"
    /\ rc.reader.todo = << >>
    /\ rc' = [rc EXCEPT
          !.out = Render(rc.asFormat, rc.read, InitContext, 1, "Info", "hi",
                         Location),
          !.reader.pc = "done"]
    /\ UNCHANGED <<pvars, svars, fm, fs>>

\* Logger::SetFieldConfig(fields), line 166: this->config.fields = fields, as
\* one store of the whole struct (wide) or as the first of eight stores.
RcSetFieldConfig(fields, wide) ==
    /\ rc.st = "on"
    /\ rc.writer.pc = "idle"
    /\ rc.sets > 0
    /\ fields # rc.fields
    /\ rc' = [rc EXCEPT
          !.sets = @ - 1,
          !.arg = fields,
          !.installed = @ \cup {fields},
          !.fields = IF wide THEN fields ELSE @,
          !.writer = IF wide THEN RcIdle
                     ELSE [pc |-> "store", todo |-> StoreOrder]]
    /\ UNCHANGED <<pvars, svars, fm, fs>>

\* The member-wise assignment stores its next flag; after the last one
\* SetFieldConfig returns.
RcStoreFlag ==
    /\ rc.writer.pc = "store"
    /\ rc' = [rc EXCEPT
          !.fields[Head(rc.writer.todo)] = rc.arg[Head(rc.writer.todo)],
          !.writer = IF Tail(rc.writer.todo) = << >> THEN RcIdle
                     ELSE [pc |-> "store", todo |-> Tail(rc.writer.todo)]]
    /\ UNCHANGED <<pvars, svars, fm, fs>>

\* Logger::SetOutputFormat(format), line 178: one store to config.format.
RcSetOutputFormat(format) ==
    /\ rc.st = "on"
    /\ rc.writer.pc = "idle"
    /\ rc.sets > 0
    /\ format # rc.format
    /\ rc' = [rc EXCEPT !.sets = @ - 1, !.format = format,
                        !.formats = @ \cup {format}]
    /\ UNCHANGED <<pvars, svars, fm, fs>>

RaceNext ==
    \/ RcLog
    \/ RcReadFlag
    \/ RcReturn
    \/ \E fields \in FieldChoices, wide \in BOOLEAN : RcSetFieldConfig(fields, wide)
    \/ RcStoreFlag
    \/ \E format \in OutputFormat : RcSetOutputFormat(format)

RaceSpec == RaceInit /\ [][RaceNext]_vars

(***************************************************************************)
(* The file at logFilePath and the file sinks that name it. Each Logger    *)
(* made with a file path has a basic_file_sink_mt of its own: its own      *)
(* FILE handle (with stdio's buffer and the handle's place in the file)    *)
(* and its own mutex_. A record the sink writes is in the buffer first and *)
(* in the file once the buffer is flushed (Logger::flush, a full buffer,   *)
(* or the close of the file). Where flushed bytes land depends on the      *)
(* spdlog build: at the handle's own place ("wb"), or at the end of the    *)
(* file (builds that reopen the truncated file in "ab").                   *)
(***************************************************************************)
MaxFileOps == 4

\* (Variant: the file is opened without the truncate flag.)
OpenDiskKeep(disk) == disk

\* basic_file_sink_mt(*logFilePath, true), lines 254-255: truncate = true, the
\* file is emptied as it is opened.
OpenDisk(disk) == << >>

\* The ids of the records that are in the file.
OnDisk(disk) == {disk[i].id : i \in 1..Len(disk)} \ {0}

\* fflush of a handle: the buffered cells go into the file from place
\* `start` on, over whatever is there; the places skipped stay holes.
FileWrite(disk, start, cells) ==
    LET end == start + Len(cells)
        len == IF end > Len(disk) THEN end ELSE Len(disk)
    IN [i \in 1..len |->
           IF i > start /\ i <= end THEN cells[i - start]
           ELSE IF i <= Len(disk) THEN disk[i]
           ELSE NoCell]

\* The place the next flush of Logger l's handle writes from.
FlushStart(l) == IF fs.append THEN Len(fs.disk) ELSE fs.lg[l].pos

\* The buffered records of Logger l's handle as they come into the file
\* (history: each with the number of opens of the file so far).
Cells(l) ==
    [i \in 1..Len(fs.lg[l].buf) |->
        [id |-> fs.lg[l].buf[i], by |-> l, open |-> fs.opens]]

\* The file and Logger l's handle once the handle's buffer is flushed.
Flushed(l) ==
    [fs EXCEPT !.disk = FileWrite(fs.disk, FlushStart(l), Cells(l)),
               !.lg[l].pos = FlushStart(l) + Len(fs.lg[l].buf),
               !.lg[l].buf = << >>]

FileInit ==
    /\ PipelineOff
    /\ SinkModelOff
    /\ fm = NoFormat
    /\ rc = NoRace
    /\ \E append \in BOOLEAN :
          fs = [NoFiles EXCEPT
                   !.st = "on", !.append = append, !.opens = 1,
                   !.lg[1] = [NoFileSink EXCEPT !.st = "alive", !.path = GoodPath],
                   !.ops = MaxFileOps]

\* Logger::initializeLogger, lines 252-258, for the new Logger l.
FsInitializeLogger(l, path, kind, source) ==
    /\ fs.st = "on"
    /\ fs.ops > 0
    /\ fs.lg[l].st = "none"
    /\ \A k \in LoggerIds : k < l => fs.lg[k].st # "none"
    /\ fs' = [fs EXCEPT
          !.ops = @ - 1,
          !.lg[l] = [NoFileSink EXCEPT !.st = "alive", !.path = path,
                                       !.kind = kind, !.source = source],
          !.disk = IF path # NoPath THEN OpenDisk(@) ELSE @,
          !.opens = IF path # NoPath THEN @ + 1 ELSE @,
          !.lost = IF path # NoPath THEN @ \cup OnDisk(fs.disk) ELSE @]
    /\ UNCHANGED <<pvars, svars, fm, rc>>

\* explicit Logger(const Config & initialConfig)
FsNewLogger(l, path) ==
    /\ path \in {NoPath, GoodPath}
    /\ FsInitializeLogger(l, path, "Logger", 0)

\* Logger(const Logger & other): config(other.config), logFilePath with it
FsCopyLogger(l, other) ==
    /\ fs.lg[other].st = "alive"
    /\ FsInitializeLogger(l, fs.lg[other].path, "copy", other)

\* Logger::WithConfigFrom(source, newContext): Config newConfig = source.config
FsWithConfigFrom(l, source) ==
    /\ fs.lg[source].st = "alive"
    /\ FsInitializeLogger(l, fs.lg[source].path, "WithConfigFrom", source)

\* A log call of thread t on Logger l comes to the file sink: base_sink::log
\* takes the sink's mutex_.
FsSinkLock(t, l) ==
    /\ fs.st = "on"
    /\ fs.ops > 0
    /\ fs.th[t].pc = "idle"
    /\ fs.lg[l].st = "alive"
    /\ fs.lg[l].path # NoPath
    /\ fs.lg[l].lock = 0
    /\ fs' = [fs EXCEPT !.ops = @ - 1, !.records = @ + 1,
                        !.lg[l].lock = t,
                        !.th[t] = [pc |-> "locked", l |-> l, id |-> fs.records + 1]]
    /\ UNCHANGED <<pvars, svars, fm, rc>>

\* basic_file_sink::sink_it_: the record is written to the sink's handle
\* (into its buffer), and the mutex is released.
FsSinkWrite(t) ==
    LET l == fs.th[t].l IN
    /\ fs.th[t].pc = "locked"
    /\ fs' = [fs EXCEPT
          !.lg[l].buf = Append(@, fs.th[t].id),
          !.lg[l].lock = 0,
          !.th[t] = FsIdle]
    /\ UNCHANGED <<pvars, svars, fm, rc>>

\* The buffer of Logger l's handle is flushed: Logger::flush, or stdio when
\* the buffer is full.
FsFlush(l) ==
    /\ fs.st = "on"
    /\ fs.lg[l].st = "alive"
    /\ fs.lg[l].lock = 0
    /\ fs.lg[l].buf # << >>
    /\ fs' = Flushed(l)
    /\ UNCHANGED <<pvars, svars, fm, rc>>

\* The Logger goes out of scope: its file sink closes the file, which
\* flushes the handle's buffer.
FsDestroyLogger(l) ==
    /\ fs.st = "on"
    /\ fs.ops > 0
    /\ fs.lg[l].st = "alive"
    /\ \A t \in Clients : fs.th[t].l # l
    /\ fs' = [Flushed(l) EXCEPT !.ops = @ - 1, !.lg[l].st = "destroyed"]
    /\ UNCHANGED <<pvars, svars, fm, rc>>

FileNext ==
    \/ \E l \in LoggerIds, path \in {NoPath, GoodPath} : FsNewLogger(l, path)
    \/ \E l \in LoggerIds, other \in LoggerIds : FsCopyLogger(l, other)
    \/ \E l \in LoggerIds, source \in LoggerIds : FsWithConfigFrom(l, source)
    \/ \E t \in Clients, l \in LoggerIds : FsSinkLock(t, l)
    \/ \E t \in Clients : FsSinkWrite(t)
    \/ \E l \in LoggerIds : FsFlush(l)
    \/ \E l \in LoggerIds : FsDestroyLogger(l)

FileSpec == FileInit /\ [][FileNext]_vars

(***************************************************************************)
(* Vocabulary of the properties                                            *)
(***************************************************************************)
HasSink(l, kind) ==
    \E i \in 1..Len(loggers[l].sinkset) : loggers[l].sinkset[i] = kind

\* Record id went through every sink of Logger l: each console/file sink holds
\* it, and the network sink either sent it or skipped it for a down adapter.
Accepted(l, id) ==
    /\ \A kind \in {"console", "file"} : HasSink(l, kind) => Count(l, kind, id) > 0
    /\ HasSink(l, "network") =>
          Count(l, "network", id) + Count(l, "netdrop", id) > 0

IsAsync(l) == loggers[l].config.asyncMode = "Async"

\* What the level check of spdlog's logger::log decides, by itself: a record
\* is filtered exactly when it is below the Logger's level, a filtered record
\* reaches no sink, and a Sync record that passes is in every sink when its
\* log call returns.
LevelFilter ==
    \A id \in CallIds :
        /\ (toSpdlogLevel(calls[id].level) < calls[id].min)
              = (calls[id].outcome = "filtered")
        /\ calls[id].outcome = "filtered" => Untouched(id)
        /\ calls[id].outcome = "sync" => Accepted(calls[id].l, id)

(***************************************************************************)
(* C1: in Async mode, when flush() returns, every record whose log call    *)
(* returned before flush() was invoked has been accepted by every sink of  *)
(* the logger, and the sinks have been flushed.                            *)
(* Stated for the spdlog build most favourable to it (flush() waits until   *)
(* a worker has processed its flush message), for a flush() that found its *)
(* thread pool, and for the records that were enqueued.                    *)
(***************************************************************************)
C1_FlushCompleteness ==
    \A c \in Clients :
        (flushWaits /\ flushRet[c].l # 0 /\ flushRet[c].async
            /\ flushRet[c].posted) =>
            /\ \A id \in flushRet[c].before :
                  calls[id].outcome = "posted" => Accepted(flushRet[c].l, id)
            /\ sinkFlushes[flushRet[c].l] > flushRet[c].flushes

(***************************************************************************)
(* C2: in Async mode the records one thread logs are accepted by every     *)
(* sink in the order of the log calls, for every worker count.             *)
(***************************************************************************)
InCallOrder(l) ==
    \A kind \in SinkKinds :
        \A i, j \in 1..Len(sinks[l][kind]) :
            (i < j /\ calls[sinks[l][kind][i][1]].c = calls[sinks[l][kind][j][1]].c)
                => sinks[l][kind][i][1] < sinks[l][kind][j][1]

QueueStep(p) ==
    LET q == pools[p].q
        r == pools'[p].q
    IN  \/ r = q
        \/ q # << >> /\ r = Tail(q)
        \/ Len(q) < pools[p].cap /\ Len(r) = Len(q) + 1 /\ SubSeq(r, 1, Len(q)) = q
        \/ pools[p].state = "Idle" /\ r = << >>

WaiterStep(c) ==
    (clients[c].pc = "post" /\ clients'[c].pc # "post") =>
        /\ Len(pools[clients[c].p].q) < pools[clients[c].p].cap
        /\ pools'[clients[c].p].q = Append(pools[clients[c].p].q, clients[c].msg)

C3_Backpressure ==
    /\ [](\A p \in LoggerIds : Len(pools[p].q) <= pools[p].cap)
    /\ [][/\ \A p \in LoggerIds : QueueStep(p)
          /\ \A c \in Clients : WaiterStep(c)]_vars

\* A log call that found the queue full, waited, then enqueued its record,
\* which the sinks have accepted.
C3_Witness ==
    \E id \in CallIds :
        /\ calls[id].blocked
        /\ calls[id].outcome = "posted"
        /\ Returned(id)
        /\ Accepted(calls[id].l, id)

(***************************************************************************)
(* C4: in Async mode every record that passes the level filter and is      *)
(* enqueued is eventually accepted by every sink of its logger, and no     *)
(* sink is handed a record twice; the network sink may skip a record only  *)
(* because its adapter is not connected.                                   *)
(***************************************************************************)
Enqueued(id) ==
    id \in CallIds /\ IsAsync(calls[id].l) /\ calls[id].outcome = "posted"

AtMostOnce ==
    \A id \in CallIds :
        /\ \A kind \in {"console", "file"} : Count(calls[id].l, kind, id) <= 1
        /\ Count(calls[id].l, "network", id) + Count(calls[id].l, "netdrop", id) <= 1
        /\ \A l \in LoggerIds : \A kind \in DOMAIN sinks[l] :
              l # calls[id].l => Count(l, kind, id) = 0
        /\ ~calls[id].pass => Untouched(id)

C4_ExactlyOnce ==
    /\ []AtMostOnce
    /\ \A id \in 1..MaxOps : Enqueued(id) ~> (Enqueued(id) /\ Accepted(calls[id].l, id))

\* An enqueued record that the sinks of its Async Logger have accepted.
C4_Witness ==
    \E id \in CallIds : Enqueued(id) /\ Accepted(calls[id].l, id)

(***************************************************************************)
(* C5: the workers of a pool have all left, and the pool is Stopped, only  *)
(* once its queue is empty and every record enqueued through its Logger    *)
(* has been dispatched to the Logger's sinks.                              *)
(***************************************************************************)
AllExited(p) ==
    /\ pools[p].state # "Idle"
    /\ \A w \in DOMAIN pools[p].workers : pools[p].workers[w].pc = "exited"

Drained(p) ==
    /\ pools[p].q = << >>
    /\ \A w \in DOMAIN pools[p].workers : pools[p].workers[w].pc # "busy"
    /\ \A id \in CallIds :
          (calls[id].l = p /\ calls[id].outcome \in {"posted", "waiting"})
              => (calls[id].outcome = "posted" /\ Accepted(p, id))

C5_DrainBeforeStop ==
    \A p \in LoggerIds :
        /\ AllExited(p) => Drained(p)
        /\ pools[p].state = "Stopped" => (AllExited(p) /\ Drained(p))

\* A destroyed Async Logger whose pool is Stopped after carrying a record.
C5_Witness ==
    \E p \in LoggerIds :
        /\ loggers[p].st = "destroyed"
        /\ pools[p].state = "Stopped"
        /\ \E id \in CallIds : calls[id].l = p /\ calls[id].outcome = "posted"

(***************************************************************************)
(* C6: constructing or destroying another Logger never stops or removes    *)
(* the pipeline of an existing Async Logger: while the Logger is alive its *)
(* pool is Running, and no record logged through it is left undispatched   *)
(* for want of a pool.                                                     *)
(***************************************************************************)
C6_OwnPipeline ==
    /\ \A l \in LoggerIds :
          (loggers[l].st = "alive" /\ IsAsync(l)) => pools[l].state = "Running"
    /\ \A id \in CallIds : calls[id].outcome # "nopool"

(***************************************************************************)
(* C7: after setLevel(L), a record below L reaches no sink (and no queue), *)
(* and a record at or above L is delivered: dispatched on the spot in Sync *)
(* mode, enqueued for dispatch in Async mode.                              *)
(***************************************************************************)
Delivered(id) ==
    \/ calls[id].outcome = "sync" /\ Accepted(calls[id].l, id)
    \/ calls[id].outcome \in {"posted", "waiting"}

C7_SetLevelFilter ==
    \A id \in CallIds :
        calls[id].levelSet =>
            /\ toSpdlogLevel(calls[id].level) < calls[id].min =>
                  (calls[id].outcome = "filtered" /\ Untouched(id))
            /\ toSpdlogLevel(calls[id].level) >= calls[id].min => Delivered(id)

(***************************************************************************)
(* C8: a Logger on which setLevel was never called delivers every record,  *)
(* Trace to Critical; after setLevel(Off) no record reaches a sink.        *)
(***************************************************************************)
C8_DefaultTraceAndOff ==
    \A id \in CallIds :
        /\ ~calls[id].levelSet => (calls[id].min = toSpdlogLevel("Trace")
                                   /\ Delivered(id))
        /\ calls[id].min = toSpdlogLevel("Off") => Untouched(id)

(***************************************************************************)
(* C9: a log call below the current minimum severity runs no formatter and *)
(* touches no sink.                                                        *)
(***************************************************************************)
C9_FilteredNotFormatted ==
    \A id \in CallIds :
        toSpdlogLevel(calls[id].level) < calls[id].min =>
            (~calls[id].formatted /\ Untouched(id))

(***************************************************************************)
(* C10: what a sink holds for a record is the text rendered from the       *)
(* format, the field selection and the context the Logger had when the log *)
(* call ran, whatever SetFieldConfig / SetOutputFormat did afterwards.     *)
(***************************************************************************)
C10_FrozenRender ==
    \A l \in LoggerIds : \A kind \in DOMAIN sinks[l] :
        \A i \in 1..Len(sinks[l][kind]) :
            LET id == sinks[l][kind][i][1]
            IN  sinks[l][kind][i][2] =
                    Render(calls[id].format, calls[id].fields, calls[id].context,
                           calls[id].c, calls[id].level, calls[id].message,
                           Location)

\* A sink of an Async Logger holds a record that was still enqueued when
\* SetFieldConfig or SetOutputFormat replaced the configuration it was
\* rendered under.
C10_Witness ==
    \E l \in LoggerIds : \E i \in 1..Len(sinks[l]["console"]) :
        LET id == sinks[l]["console"][i][1]
        IN  /\ IsAsync(l)
            /\ calls[id].overtaken
            /\ \/ calls[id].fields # loggers[l].config.fields
               \/ calls[id].format # loggers[l].config.format

(***************************************************************************)
(* C11: for one log call, every sink of the Logger that is handed the      *)
(* record is handed the same string.                                       *)
(***************************************************************************)
C11_SameString ==
    \A l \in LoggerIds : \A k1, k2 \in DOMAIN sinks[l] :
        \A i \in 1..Len(sinks[l][k1]) : \A j \in 1..Len(sinks[l][k2]) :
            sinks[l][k1][i][1] = sinks[l][k2][j][1]
                => sinks[l][k1][i][2] = sinks[l][k2][j][2]

\* One record that the console, the file and the network sink of a Logger
\* all hold.
C11_Witness ==
    \E l \in LoggerIds : \E id \in CallIds :
        \A kind \in SinkKinds : Count(l, kind, id) = 1

(***************************************************************************)
(* Vocabulary of the sink model's properties                               *)
(***************************************************************************)
SkCallIds == 1..Len(skCalls)

\* The number of entries of record id in a sequence of <<id, ...>> pairs.
SkCount(seq, id) == Cardinality({i \in 1..Len(seq) : seq[i][1] = id})

SkTried(id, kind) ==
    \E i \in 1..Len(skCalls[id].tried) : skCalls[id].tried[i] = kind

\* The number of sendLog calls made for record id, over all adapters.
SkSends(id) ==
    SkCount(skOut.sent[1], id) + SkCount(skOut.sent[2], id)

\* Every console / file sink of the Logger that did not throw holds record
\* id once.
SkOthersHold(id) ==
    \A i \in 1..Len(skConfig.sinkset) :
        LET k == skConfig.sinkset[i] IN
        (k \in {"console", "file"} /\ k \notin skCalls[id].failed)
            => SkCount(skOut[k], id) = 1

(***************************************************************************)
(* C12: when the adapter is missing or its isConnected() is false as the   *)
(* network sink is handed a record, sendLog is not called for the record,  *)
(* then or later, no error is reported or raised, and the other sinks of   *)
(* the Logger hold the record.                                             *)
(***************************************************************************)
C12_NotConnectedDrop ==
    \A id \in SkCallIds :
        (SkTried(id, "network") /\ ~skCalls[id].conn) =>
            /\ skCalls[id].net = "skipped"
            /\ SkSends(id) = 0
            /\ SkCount(skOut.errors, id) = Cardinality(skCalls[id].failed)
            /\ "network" \notin skCalls[id].failed
            /\ skCalls[id].outcome # "threw"
            /\ skCalls[id].done => SkOthersHold(id)

\* A finished log call whose record the network sink skipped for an adapter
\* that was not connected, and that the console sink holds.
C12_Witness ==
    \E id \in SkCallIds :
        /\ skCalls[id].done /\ skCalls[id].net = "skipped"
        /\ skCalls[id].checked # NoAdapter
        /\ SkCount(skOut.console, id) = 1

(***************************************************************************)
(* C13: when a sink throws for a record, every sink of the Logger is still *)
(* handed that record, in the order of the sinks vector, in Sync and in    *)
(* Async mode; the sinks that did not throw hold it.                       *)
(***************************************************************************)
C13_SinkFailureIsolated ==
    \A id \in SkCallIds :
        (skCalls[id].done /\ skCalls[id].outcome # "threw") =>
            /\ skCalls[id].tried = skConfig.sinkset
            /\ SkOthersHold(id)
            /\ SkCount(skOut.errors, id) = Cardinality(skCalls[id].failed)

\* A finished dispatch in which the file sink threw and the network sink,
\* next in the sinks vector, sent the record.
C13_Witness ==
    \E id \in SkCallIds :
        /\ skCalls[id].done
        /\ "file" \in skCalls[id].failed
        /\ skCalls[id].net = "sent"
        /\ SkSends(id) = 1

(***************************************************************************)
(* C14: no logging call ends with an error handed to its caller, whatever  *)
(* the message, the output format and the failures of the sinks.           *)
(***************************************************************************)
C14_NoErrorToCaller ==
    \A id \in SkCallIds : skCalls[id].outcome # "threw"

(***************************************************************************)
(* C15: setAdapter never takes effect while a thread is inside the network *)
(* sink's sink_it_: the adapter does not change while the sink's mutex_ is *)
(* held, so a record is sent to the adapter whose isConnected() was asked, *)
(* and never through a null adapter.                                       *)
(***************************************************************************)
C15_SetAdapterAtomic ==
    /\ [](\A id \in SkCallIds :
            /\ skCalls[id].net # "crash"
            /\ skCalls[id].net = "sent" =>
                  (skCalls[id].sentTo = skCalls[id].checked
                   /\ SkCount(skOut.sent[skCalls[id].checked], id) = 1))
    /\ [][skLocks["network"] # 0 => skAdapter' = skAdapter]_vars

\* A record was sent while a setAdapter call was waiting for the sink's
\* mutex_, to the adapter that was asked; the new adapter is in place since.
C15_Witness ==
    \E id \in SkCallIds :
        /\ skCalls[id].net = "sent"
        /\ skCalls[id].overlap
        /\ skAdapter # skCalls[id].sentTo

(***************************************************************************)
(* C16: a construction whose file path cannot be opened yields no Logger:  *)
(* no Logger object exists with such a path, the failed construction made  *)
(* no thread pool and no sinks, and it left the registry's pool, the pools *)
(* and the sinks of the other Loggers as they were.                        *)
(***************************************************************************)
C16_ConstructionFails ==
    /\ [](\A l \in LoggerIds :
            /\ loggers[l].st \in {"alive", "constructing", "destroyed"}
                  => loggers[l].config.logFilePath # BadPath
            /\ loggers[l].st = "failed" =>
                  /\ pools[l] = NoPoolRec /\ registry # l
                  /\ sinks[l] = NoSinks /\ loggers[l].sinkset = << >>
                  /\ \A id \in CallIds : calls[id].l # l)
    /\ [][\A l \in LoggerIds :
            (loggers[l].st # "failed" /\ loggers'[l].st = "failed")
                => UNCHANGED <<registry, pools, sinks, clients>>]_vars

\* A construction has failed on its file path while the thread pool of an
\* Async Logger made earlier is running.
C16_Witness ==
    \E l \in LoggerIds :
        /\ loggers[l].st = "failed"
        /\ registry # NoPool
        /\ pools[registry].state = "Running"

(***************************************************************************)
(* C17: a Logger has a console sink exactly when logToConsole is set, a    *)
(* file sink exactly when logFilePath is, a network sink exactly when      *)
(* networkAdapter is; no operation on the Logger changes its sinks, and no *)
(* record goes to a sink the Logger does not have.                         *)
(***************************************************************************)
C17_SinkSetFixed ==
    /\ [](\A l \in LoggerIds :
            loggers[l].st \in {"alive", "constructing", "destroyed"} =>
                /\ HasSink(l, "console") = loggers[l].config.logToConsole
                /\ HasSink(l, "file") = (loggers[l].config.logFilePath # NoPath)
                /\ HasSink(l, "network") = loggers[l].config.networkAdapter
                /\ Len(loggers[l].sinkset)
                      = Cardinality({k \in SinkKinds : HasSink(l, k)})
                /\ \A k \in SinkKinds : sinks[l][k] # << >> => HasSink(l, k))
    /\ [][\A l \in LoggerIds :
            loggers[l].st \in {"alive", "constructing", "destroyed"}
                => loggers'[l].sinkset = loggers[l].sinkset]_vars

\* A Logger built without a console sink, after a setLevel and a record:
\* the record is in its file sink and its console sink is empty.
C17_Witness ==
    \E l \in LoggerIds :
        /\ loggers[l].sinkset = <<"file", "network">>
        /\ loggers[l].levelSet
        /\ sinks[l]["file"] # << >>
        /\ sinks[l]["console"] = << >>

(***************************************************************************)
(* C18: WithConfigFrom(source, newContext) makes a Logger whose            *)
(* configuration is the source's configuration of that moment and whose    *)
(* context is newContext, and leaves the source as it was; afterwards a    *)
(* change of one Logger's configuration changes no other Logger's.         *)
(***************************************************************************)
C18_WithConfigFrom ==
    /\ [][\A l \in LoggerIds :
            (loggers[l].st = "none" /\ loggers'[l].st \in {"alive", "constructing"}
             /\ loggers'[l].origin.kind = "WithConfigFrom") =>
                LET source == loggers'[l].origin.source IN
                /\ loggers'[l].config = loggers[source].config
                /\ loggers'[l].context = loggers'[l].origin.context
                /\ loggers'[source] = loggers[source]]_vars
    /\ [][\A l, k \in LoggerIds :
            (l # k /\ loggers[l].st = "alive" /\ loggers[k].st = "alive"
             /\ loggers'[l].config # loggers[l].config)
                => (loggers'[k].config = loggers[k].config
                    /\ loggers'[k].context = loggers[k].context)]_vars

\* A Logger made by WithConfigFrom from a source whose field selection had
\* been changed by SetFieldConfig: it has that selection and the new
\* context, and a later SetOutputFormat on one of the two has left the
\* other's format alone.
C18_Witness ==
    \E l \in LoggerIds :
        LET source == loggers[l].origin.source IN
        /\ loggers[l].st = "alive"
        /\ loggers[l].origin.kind = "WithConfigFrom"
        /\ loggers[l].config.fields = MinimalFields
        /\ loggers[source].config.fields = MinimalFields
        /\ loggers[l].context # loggers[source].context
        /\ loggers[l].config.format # loggers[source].config.format

(***************************************************************************)
(* C19: the object formatJson builds has exactly the keys whose flag is    *)
(* set, app and module only when the name is not empty, and no other key;  *)
(* the string it returns is that object, written out.                      *)
(***************************************************************************)
KeyFlag ==
    [time |-> "includeTime", app |-> "includeAppName",
     process_id |-> "includeProcessId", thread_id |-> "includeThreadId",
     module |-> "includeModuleName", level |-> "includeLogLevel",
     file |-> "includeFile", message |-> "includeMessage"]

ExpectedKeys(fields, context) ==
    {k \in DOMAIN KeyFlag :
        /\ fields[KeyFlag[k]]
        /\ k = "app" => context.appName # ""
        /\ k = "module" => context.moduleName # ""}

C19_JsonKeys ==
    fm.st = "Json" =>
        /\ DOMAIN fm.entry = ExpectedKeys(fm.fields, fm.context)
        /\ fm.out = dump(fm.entry)

\* formatJson has run with includeAppName set and an empty appName, a module
\* name, and the time switched off: the object has module and neither app
\* nor time.
C19_Witness ==
    /\ fm.st = "Json"
    /\ fm.fields.includeAppName /\ fm.context.appName = ""
    /\ fm.fields.includeModuleName /\ fm.context.moduleName = "Mod"
    /\ ~fm.fields.includeTime
    /\ "module" \in DOMAIN fm.entry
    /\ "app" \notin DOMAIN fm.entry

(***************************************************************************)
(* C20: the string formatTerminal returns is the bracketed enabled fields  *)
(* in the order time, app, module, process id, thread id, level,           *)
(* file:line (app and module only when not empty), then one space and the  *)
(* message when includeMessage is set, and nothing more when it is not.    *)
(***************************************************************************)
TerminalParts(fields, context, level) ==
    <<[on |-> fields.includeTime, text |-> "<time>"],
      [on |-> fields.includeAppName /\ context.appName # "",
       text |-> context.appName],
      [on |-> fields.includeModuleName /\ context.moduleName # "",
       text |-> context.moduleName],
      [on |-> fields.includeProcessId, text |-> "PID:<pid>"],
      [on |-> fields.includeThreadId, text |-> "TID:<tid1>"],
      [on |-> fields.includeLogLevel,
       text |-> CASE level = "Trace" -> "TRC" [] level = "Debug" -> "DBG"
                  [] level = "Info" -> "INF" [] level = "Warning" -> "WRN"
                  [] level = "Error" -> "ERR" [] level = "Critical" -> "CRT"],
      [on |-> fields.includeFile, text |-> "a.cpp:10"]>>

RECURSIVE Bracketed(_)
Bracketed(parts) ==
    IF parts = << >> THEN ""
    ELSE (IF Head(parts).on THEN "[" \o Head(parts).text \o "]" ELSE "")
         \o Bracketed(Tail(parts))

C20_TerminalLine ==
    fm.st = "Terminal" =>
        /\ fm.out = Bracketed(TerminalParts(fm.fields, fm.context, fm.level))
                      \o (IF fm.fields.includeMessage
                          THEN " " \o fm.message ELSE "")
        /\ (fm.fields = LogFieldConfig /\ fm.context = InitContext
            /\ fm.level = "Info" /\ fm.message = "hi")
              => fm.out = "[<time>][App][Mod][PID:<pid>][TID:<tid1>][INF][a.cpp:10] hi"

\* formatTerminal has run with includeMessage off, includeAppName set on an
\* empty appName, and the level on: the line ends with the last bracket.
C20_Witness ==
    /\ fm.st = "Terminal"
    /\ ~fm.fields.includeMessage
    /\ fm.fields.includeAppName /\ fm.context.appName = ""
    /\ fm.fields.includeLogLevel /\ ~fm.fields.includeFile
    /\ fm.level = "Error"
    /\ fm.out = "[<time>][ERR]"

(***************************************************************************)
(* C21: whatever the number of threads that dispatch records of the one    *)
(* Logger (the callers in Sync mode, the workers in Async mode), at most    *)
(* one of them at a time is inside the network sink, between the           *)
(* isConnected() test and the end of sendLog(); that thread holds the      *)
(* sink's mutex.                                                           *)
(***************************************************************************)
InNetworkSink(t) ==
    \/ skThreads[t].pc = "send"
    \/ /\ skThreads[t].pc = "locked"
       /\ skConfig.sinkset[skThreads[t].pos] = "network"

C21_OneThreadInNetworkSink ==
    /\ Cardinality({t \in Clients : InNetworkSink(t)}) <= 1
    /\ \A t \in Clients : InNetworkSink(t) => skLocks["network"] = t

\* One thread is about to call sendLog while another thread, with a record
\* of its own, stands before the same sink.
C21_Witness ==
    \E t \in Clients, u \in Clients :
        /\ t # u
        /\ skThreads[t].pc = "send"
        /\ skThreads[u].pc = "sinks"
        /\ skConfig.sinkset[skThreads[u].pos] = "network"

(***************************************************************************)
(* C22: the record of a log call that runs while another thread calls      *)
(* SetFieldConfig or SetOutputFormat on the same Logger is made from one   *)
(* complete field selection, the one the Logger had or one it was given,   *)
(* and is entirely in one output format.                                   *)
(***************************************************************************)
C22_NoMixedSelection ==
    rc.reader.pc = "done" =>
        /\ rc.read \in rc.installed
        /\ \E fields \in rc.installed, format \in rc.formats :
              rc.out = Render(format, fields, InitContext, 1, "Info", "hi",
                              Location)

(***************************************************************************)
(* C23: in Sync mode a log call has returned only when every sink of the   *)
(* Logger, in the order of the sinks vector, has been handed the record by *)
(* the calling thread itself (the sinks that did not throw hold it, the    *)
(* network sink sent it or skipped it); so the records of one thread are   *)
(* in each sink in the order of its calls, with no flush in between.       *)
(***************************************************************************)
\* The records of each thread stand in the sequence in call order.
SkInCallOrder(seq) ==
    \A i \in 1..Len(seq) : \A j \in 1..Len(seq) :
        (i < j /\ skCalls[seq[i][1]].t = skCalls[seq[j][1]].t)
            => seq[i][1] < seq[j][1]

C23_InlineDispatch ==
    skConfig.asyncMode = "Sync" =>
        /\ \A id \in SkCallIds :
              /\ skCalls[id].outcome = "returned" =>
                    /\ skCalls[id].tried = skConfig.sinkset
                    /\ SkOthersHold(id)
                    /\ SkTried(id, "network")
                          => skCalls[id].net \in {"sent", "skipped", "threw"}
                    /\ skCalls[id].net = "sent" => SkSends(id) = 1
              \* a call that has not returned is still run by its caller
              /\ skCalls[id].outcome = "running" =>
                    /\ skThreads[skCalls[id].t].call = id
                    /\ skThreads[skCalls[id].t].pc \in {"sinks", "locked", "send"}
        /\ SkInCallOrder(skOut.console)
        /\ SkInCallOrder(skOut.file)
        /\ \A a \in Adapters : SkInCallOrder(skOut.sent[a])

\* Sync mode, three sinks: a thread has returned from two log calls and both
\* records are in the console sink, in the file sink and at the adapter.
C23_Witness ==
    /\ skConfig.asyncMode = "Sync"
    /\ Len(skConfig.sinkset) = 3
    /\ \E i \in SkCallIds, j \in SkCallIds :
          /\ i < j
          /\ skCalls[i].t = skCalls[j].t
          /\ skCalls[i].outcome = "returned" /\ skCalls[j].outcome = "returned"
          /\ \A id \in {i, j} :
                /\ SkCount(skOut.console, id) = 1
                /\ SkCount(skOut.file, id) = 1
                /\ SkSends(id) = 1

(***************************************************************************)
(* C24: the thread pool an Async Logger makes goes Idle -> Running ->      *)
(* Draining -> Stopped, one state at a time and never back. The step to    *)
(* Running is the Logger's construction: the queue has room for            *)
(* asyncQueueSize messages and there are asyncThreadCount workers, all     *)
(* waiting. In Stopped every worker has left its loop, and from then on    *)
(* neither the pool nor the sinks of its Logger change.                    *)
(***************************************************************************)
PipelineRank(state) ==
    CASE state = "Idle" -> 0
      [] state = "Running" -> 1
      [] state = "Draining" -> 2
      [] state = "Stopped" -> 3

C25_LevelNotCopied ==
    /\ [](\A l \in LoggerIds :
            (loggers[l].st \in {"alive", "constructing"} /\ ~loggers[l].levelSet)
                => loggers[l].level = toSpdlogLevel("Trace"))
    /\ [](\A id \in CallIds :
            ~calls[id].levelSet =>
                /\ calls[id].min = toSpdlogLevel("Trace")
                /\ calls[id].outcome # "filtered")
    /\ [][\A l \in LoggerIds :
            (loggers[l].st = "none" /\ loggers'[l].st \in {"alive", "constructing"}) =>
                /\ loggers'[l].level = toSpdlogLevel("Trace")
                /\ ~loggers'[l].levelSet
                /\ \A k \in LoggerIds \ {l} :
                      loggers'[k].level = loggers[k].level]_vars
    /\ [][\A l \in LoggerIds :
            (loggers[l].st # "none" /\ loggers'[l].level # loggers[l].level) =>
                /\ loggers'[l].levelSet
                /\ \A k \in LoggerIds \ {l} :
                      loggers'[k].level = loggers[k].level]_vars

\* A Logger copied (or made by WithConfigFrom) from a source narrowed with
\* setLevel is at level trace, and a Debug record it was given passed the
\* level check.
C25_Witness ==
    \E l \in LoggerIds :
        /\ loggers[l].st = "alive"
        /\ loggers[l].origin.kind \in {"copy", "WithConfigFrom"}
        /\ loggers[loggers[l].origin.source].levelSet
        /\ loggers[loggers[l].origin.source].level > toSpdlogLevel("Debug")
        /\ loggers[l].level = toSpdlogLevel("Trace")
        /\ \E id \in CallIds :
              /\ calls[id].l = l
              /\ calls[id].level = "Debug"
              /\ calls[id].outcome # "filtered"

(***************************************************************************)
(* C26: whenever a Logger is made with a file path (by a constructor, the  *)
(* copy constructor or WithConfigFrom, the path then being the source's),  *)
(* the file is emptied: what it held is gone for good, and everything in   *)
(* the file was flushed after the latest open. The new Logger has a handle *)
(* and a mutex of its own; the source keeps its handle, its buffer and its *)
(* mutex, and a thread inside one file sink does not hold the other's.     *)
(***************************************************************************)
C26_TruncateOnOpen ==
    /\ [](/\ OnDisk(fs.disk) \cap fs.lost = {}
          /\ \A i \in 1..Len(fs.disk) :
                fs.disk[i].id # 0 => fs.disk[i].open = fs.opens
          /\ \A t \in Clients :
                fs.th[t].pc = "locked" => fs.lg[fs.th[t].l].lock = t)
    /\ [][\A l \in LoggerIds :
            (fs.lg[l].st = "none" /\ fs'.lg[l].st = "alive") =>
                /\ fs.lg[l].kind = "Logger"
                /\ fs'.lg[l].kind \in {"copy", "WithConfigFrom"}
                      => fs'.lg[l].path = fs.lg[fs'.lg[l].source].path
                /\ fs'.lg[l].path # NoPath =>
                      /\ fs'.disk = << >>
                      /\ fs'.lost = fs.lost \cup OnDisk(fs.disk)
                /\ fs'.lg[l].path = NoPath => fs'.disk = fs.disk
                /\ fs'.lg[l].buf = << >> /\ fs'.lg[l].lock = 0
                /\ \A k \in LoggerIds \ {l} : fs'.lg[k] = fs.lg[k]]_vars
    /\ [][\A l \in LoggerIds :
            fs'.lg[l].lock # fs.lg[l].lock =>
                \A k \in LoggerIds \ {l} : fs'.lg[k] = fs.lg[k]]_vars

\* A Logger copied from one that had written to the file: the source's
\* record is gone from the file, and two threads are inside the two file
\* sinks at the same time, each holding the mutex of its own sink.
C26_Witness ==
    \E l \in LoggerIds, t \in Clients, u \in Clients :
        /\ fs.lg[l].kind \in {"copy", "WithConfigFrom"}
        /\ fs.lg[l].path = GoodPath
        /\ fs.lost # {}
        /\ fs.lg[l].lock = t
        /\ fs.lg[fs.lg[l].source].lock = u
        /\ t # 0 /\ u # 0

====
